---------------------------- MODULE Spec2Model ----------------------------
(***************************************************************************)
(* Agent orchestration core of the IDE: the virtual file system            *)
(* (FileSystemService, two backends with change notification), the code    *)
(* index (KnowledgeService), the tool execution boundary                   *)
(* (AIService.executeTool) and the per-agent tool loop                     *)
(* (AIService.sendMessage) driven by App.handleSendMessage.                *)
(*                                                                         *)
(* A JavaScript string is a sequence of tokens.  In a path the tokens "/"  *)
(* and "." are the separator and the dot, every other token is a run of    *)
(* name characters: "src//a.ts" is <<"src","/","/","a",".","ts">> and ""   *)
(* is <<>>.  In a file content the tokens are the words of the text,       *)
(* separated by white space.                                               *)
(***************************************************************************)
EXTENDS Integers, Sequences, FiniteSets, TLC

VARIABLES
    provider,      \* FileSystemService.provider
    rootHandle,    \* FileSystemService.rootHandle: the host directory tree, or Null
    memoryRoot,    \* FileSystemService.memoryRoot
    index,         \* KnowledgeService.index, in insertion order
    cwd,           \* FileSystemService.cwd, the tracked shell directory
    last,          \* the tool call dispatched last: name, arguments, result, events
    signal,        \* ac.signal.aborted of the request of handleSendMessage
    abortRef,      \* abortControllerRef.current is set
    isProcessing,  \* App state isProcessing
    request,       \* the call of handleSendMessage: its phase and its agents
    agent,         \* per agent: the position and locals of its sendMessage invocation
    histories,     \* agentHistories: per agent the messages appended by the request
    input,         \* the arguments drawn for a function applied on its own
    output,        \* what the function returned for them
    sends,         \* the calls of handleSendMessage of a session, each with its controller
    currentRef     \* abortControllerRef.current: the call whose controller it holds, or 0

fsVars == <<provider, rootHandle, memoryRoot, index, cwd, last>>
appVars == <<signal, abortRef, isProcessing, request, agent, histories>>
pureVars == <<input, output>>
sendVars == <<sends, currentRef>>
sideVars == <<pureVars, sendVars>>
vars == <<provider, rootHandle, memoryRoot, index, cwd, last,
          signal, abortRef, isProcessing, request, agent, histories, input, output,
          sends, currentRef>>

-----------------------------------------------------------------------------
(* JavaScript values *)

\* The value undefined (a missing argument), kept apart from every string.
Undefined == <<"<undefined>">>

\* The value null.
Null == [kind |-> "null"]

\* The line feed character.
LF == "LF"

\* The characters String.prototype.trim removes.
WhiteSpace == {" ", LF}

\* JavaScript truthiness of a string-or-undefined value: "" and undefined are falsy.
Truthy(s) == s # <<>> /\ s # Undefined

Last(s) == s[Len(s)]

Front(s) == SubSeq(s, 1, Len(s) - 1)

\* String.prototype.split on the separator sep: the segments between separators.
RECURSIVE SplitAcc(_, _, _, _)
SplitAcc(s, sep, cur, acc) ==
    IF s = <<>> THEN Append(acc, cur)
    ELSE IF Head(s) = sep THEN SplitAcc(Tail(s), sep, <<>>, Append(acc, cur))
    ELSE SplitAcc(Tail(s), sep, Append(cur, Head(s)), acc)

Split(s, sep) == SplitAcc(s, sep, <<>>, <<>>)

\* Array.prototype.join('/').
RECURSIVE Join(_)
Join(parts) ==
    IF parts = <<>> THEN <<>>
    ELSE IF Len(parts) = 1 THEN Head(parts)
    ELSE Head(parts) \o <<"/">> \o Join(Tail(parts))

\* path.split('/').filter(p => p !== '.' && p !== '')
PathParts(path) ==
    SelectSeq(Split(path, "/"), LAMBDA p : p # <<".">> /\ p # <<>>)


-----------------------------------------------------------------------------
(* The trees of both backends.  A file is [kind, content]; a directory is
   [kind, children] with children a function from names to entries. *)

FileEntry(content) == [kind |-> "file", content |-> content]

EmptyDir == [kind |-> "directory", children |-> <<>>]

HasChild(dir, name) == name \in DOMAIN dir.children

\* dir.children[name] = entry
WithChild(dir, name, entry) ==
    [dir EXCEPT !.children =
        [n \in (DOMAIN dir.children) \cup {name} |->
            IF n = name THEN entry ELSE dir.children[n]]]

\* A delete that leaves a directory in place (removeEntry without recursive).
WithoutFile(dir, name) ==
    IF HasChild(dir, name) /\ dir.children[name].kind = "directory" THEN dir
    ELSE [dir EXCEPT !.children =
             [n \in (DOMAIN dir.children) \ {name} |-> dir.children[n]]]

\* delete dir.children[name]
WithoutChild(dir, name) ==
    [dir EXCEPT !.children =
        [n \in (DOMAIN dir.children) \ {name} |-> dir.children[n]]]

\* The tree with the entry at directory path `parts` replaced by `entry`
\* (every directory of `parts` exists).
RECURSIVE ReplaceAt(_, _, _)
ReplaceAt(dir, parts, entry) ==
    IF parts = <<>> THEN entry
    ELSE WithChild(dir, Head(parts),
                   ReplaceAt(dir.children[Head(parts)], Tail(parts), entry))

-----------------------------------------------------------------------------
(* FileSystemService, memory backend *)

\* getMemoryEntry: the loop over the parts.
RECURSIVE MemoryWalk(_, _)
MemoryWalk(current, parts) ==
    IF parts = <<>> THEN current
    ELSE IF current.kind # "directory" THEN Null
    ELSE IF ~HasChild(current, Head(parts)) THEN Null
    ELSE MemoryWalk(current.children[Head(parts)], Tail(parts))

getMemoryEntry(root, path) == MemoryWalk(root, PathParts(path))

\* A walk that puts a directory in the place of a file it meets.
RECURSIVE EnsureWalkOver(_, _)
EnsureWalkOver(current, parts) ==
    IF parts = <<>> THEN [root |-> current, threw |-> FALSE]
    ELSE LET part == Head(parts)
             made == IF HasChild(current, part) /\ current.children[part].kind = "directory"
                     THEN current
                     ELSE WithChild(current, part, EmptyDir)
             rest == EnsureWalkOver(made.children[part], Tail(parts))
         IN  [root |-> WithChild(made, part, rest.root), threw |-> rest.threw]

\* ensureMemoryDir: the loop over the parts.  A missing directory is created
\* before the kind of the entry is tested; the throw leaves what was created.
RECURSIVE EnsureWalk(_, _)
EnsureWalk(current, parts) ==
    IF parts = <<>> THEN [root |-> current, threw |-> FALSE]
    ELSE LET part == Head(parts)
             made == IF HasChild(current, part) THEN current
                     ELSE WithChild(current, part, EmptyDir)
             next == made.children[part]
         IN  IF next.kind # "directory"
             THEN [root |-> made, threw |-> TRUE]
             ELSE LET rest == EnsureWalk(next, Tail(parts))
                  IN  [root |-> WithChild(made, part, rest.root),
                       threw |-> rest.threw]

ensureMemoryDir(root, path) == EnsureWalk(root, PathParts(path))

\* An operation's outcome: the tree after it, whether it threw, the value it
\* returned and the notifications it sent, in order.
Outcome(root, threw, value, events) ==
    [root |-> root, threw |-> threw, value |-> value, events |-> events]

Event(type, path, content) == [type |-> type, path |-> path, content |-> content]

memoryWriteFile(root, path, content) ==
    LET parts == PathParts(path)
    IN  IF parts = <<>> THEN Outcome(root, FALSE, Undefined, <<>>)
        ELSE LET fileName == Last(parts)
                 dirPath == Join(Front(parts))
                 dir == ensureMemoryDir(root, dirPath)
             IN  IF dir.threw THEN Outcome(dir.root, TRUE, Undefined, <<>>)
                 ELSE LET at == PathParts(dirPath)
                          old == MemoryWalk(dir.root, at)
                      IN  Outcome(ReplaceAt(dir.root, at,
                                      WithChild(old, fileName, FileEntry(content))),
                                  FALSE, Undefined,
                                  <<Event("write", path, content)>>)

\* A readFile that tests the content for truthiness, so that an empty file
\* reads as missing.
memoryReadFileTruthy(root, path) ==
    LET entry == getMemoryEntry(root, path)
    IN  IF entry.kind # "file" \/ ~Truthy(entry.content)
        THEN Outcome(root, TRUE, Undefined, <<>>)
        ELSE Outcome(root, FALSE, entry.content, <<>>)

memoryReadFile(root, path) ==
    LET entry == getMemoryEntry(root, path)
    IN  IF entry.kind # "file"
        THEN Outcome(root, TRUE, Undefined, <<>>)
        ELSE Outcome(root, FALSE, entry.content, <<>>)

memoryCreateDirectory(root, path) ==
    LET dir == ensureMemoryDir(root, path)
    IN  Outcome(dir.root, dir.threw, Undefined, <<>>)

memoryDeleteEntry(root, path) ==
    LET parts == PathParts(path)
    IN  IF parts = <<>> THEN Outcome(root, FALSE, Undefined, <<>>)
        ELSE LET name == Last(parts)
                 at == PathParts(Join(Front(parts)))
                 dirEntry == MemoryWalk(root, at)
             IN  IF dirEntry.kind = "directory"
                 THEN Outcome(ReplaceAt(root, at, WithoutChild(dirEntry, name)),
                              FALSE, Undefined,
                              <<Event("delete", path, Undefined)>>)
                 ELSE Outcome(root, FALSE, Undefined, <<>>)

-----------------------------------------------------------------------------
(* FileSystemService, native backend: the host's directory handles
   (File System Access API).  host = "denied" is a host whose calls throw
   (permission revoked mid-session); a null rootHandle throws a TypeError. *)

\* parts.pop()! handed to the host: undefined is converted to the name "undefined".
HostName(parts) == IF parts = <<>> THEN <<"undefined">> ELSE Last(parts)

\* for (const part of parts) currentDir = await currentDir.getDirectoryHandle(part, {create})
RECURSIVE NativeDirWalk(_, _, _)
NativeDirWalk(current, parts, create) ==
    IF parts = <<>> THEN [root |-> current, threw |-> FALSE]
    ELSE LET part == Head(parts)
         IN  IF HasChild(current, part) /\ current.children[part].kind # "directory"
             THEN [root |-> current, threw |-> TRUE]
             ELSE IF ~HasChild(current, part) /\ ~create
             THEN [root |-> current, threw |-> TRUE]
             ELSE LET made == IF HasChild(current, part) THEN current
                              ELSE WithChild(current, part, EmptyDir)
                      rest == NativeDirWalk(made.children[part], Tail(parts), create)
                  IN  [root |-> WithChild(made, part, rest.root),
                       threw |-> rest.threw]

nativeWriteFile(handle, path, content, host) ==
    IF handle.kind = "null" \/ host = "denied" THEN Outcome(handle, TRUE, Undefined, <<>>)
    ELSE LET parts == PathParts(path)
             fileName == HostName(parts)
             at == IF parts = <<>> THEN <<>> ELSE Front(parts)
             dirs == NativeDirWalk(handle, at, TRUE)
         IN  IF dirs.threw THEN Outcome(dirs.root, TRUE, Undefined, <<>>)
             ELSE LET dir == MemoryWalk(dirs.root, at)
                  IN  IF HasChild(dir, fileName) /\ dir.children[fileName].kind # "file"
                      THEN Outcome(dirs.root, TRUE, Undefined, <<>>)
                      ELSE IF content = Undefined
                      THEN \* getFileHandle created the file; write(undefined) throws
                           Outcome(IF HasChild(dir, fileName) THEN dirs.root
                                   ELSE ReplaceAt(dirs.root, at,
                                            WithChild(dir, fileName, FileEntry(<<>>))),
                                   TRUE, Undefined, <<>>)
                      ELSE Outcome(ReplaceAt(dirs.root, at,
                                       WithChild(dir, fileName, FileEntry(content))),
                                   FALSE, Undefined,
                                   <<Event("write", path, content)>>)

\* getFileHandleNative, then getFile and text.
nativeReadFile(handle, path, host) ==
    LET parts == PathParts(path)
    IN  IF parts = <<>> \/ handle.kind = "null" \/ host = "denied"
        THEN Outcome(handle, TRUE, Undefined, <<>>)
        ELSE LET dirs == NativeDirWalk(handle, Front(parts), FALSE)
                 dir == MemoryWalk(handle, Front(parts))
             IN  IF dirs.threw \/ ~HasChild(dir, Last(parts))
                               \/ dir.children[Last(parts)].kind # "file"
                 THEN Outcome(handle, TRUE, Undefined, <<>>)
                 ELSE Outcome(handle, FALSE, dir.children[Last(parts)].content, <<>>)

nativeCreateDirectory(handle, path, host) ==
    LET parts == PathParts(path)
    IN  IF parts = <<>> THEN Outcome(handle, FALSE, Undefined, <<>>)
        ELSE IF handle.kind = "null" \/ host = "denied"
        THEN Outcome(handle, TRUE, Undefined, <<>>)
        ELSE LET dirs == NativeDirWalk(handle, parts, TRUE)
             IN  Outcome(dirs.root, dirs.threw, Undefined, <<>>)

nativeDeleteEntry(handle, path, host) ==
    IF handle.kind = "null" \/ host = "denied" THEN Outcome(handle, TRUE, Undefined, <<>>)
    ELSE LET parts == PathParts(path)
             name == HostName(parts)
             at == IF parts = <<>> THEN <<>> ELSE Front(parts)
             dirs == NativeDirWalk(handle, at, FALSE)
             dir == MemoryWalk(handle, at)
         IN  IF dirs.threw \/ ~HasChild(dir, name)
             THEN Outcome(handle, TRUE, Undefined, <<>>)
             ELSE Outcome(ReplaceAt(handle, at, WithoutChild(dir, name)),
                          FALSE, Undefined,
                          <<Event("delete", path, Undefined)>>)

-----------------------------------------------------------------------------
(* FileSystemService: the public operations.  fs is the record of the
   service's fields; an outcome's root is the tree of the active backend.
   Every operation starts with path.split, which throws on undefined. *)

ActiveRoot(fs) == IF fs.provider = "memory" THEN fs.memoryRoot ELSE fs.rootHandle

readFile(fs, path, host) ==
    IF path = Undefined THEN Outcome(ActiveRoot(fs), TRUE, Undefined, <<>>)
    ELSE IF fs.provider = "memory" THEN memoryReadFile(fs.memoryRoot, path)
    ELSE nativeReadFile(fs.rootHandle, path, host)

writeFile(fs, path, content, host) ==
    IF path = Undefined THEN Outcome(ActiveRoot(fs), TRUE, Undefined, <<>>)
    ELSE IF fs.provider = "memory" THEN memoryWriteFile(fs.memoryRoot, path, content)
    ELSE nativeWriteFile(fs.rootHandle, path, content, host)

createDirectory(fs, path, host) ==
    IF path = Undefined THEN Outcome(ActiveRoot(fs), TRUE, Undefined, <<>>)
    ELSE IF fs.provider = "memory" THEN memoryCreateDirectory(fs.memoryRoot, path)
    ELSE nativeCreateDirectory(fs.rootHandle, path, host)

deleteEntry(fs, path, host) ==
    IF path = Undefined THEN Outcome(ActiveRoot(fs), TRUE, Undefined, <<>>)
    ELSE IF fs.provider = "memory" THEN memoryDeleteEntry(fs.memoryRoot, path)
    ELSE nativeDeleteEntry(fs.rootHandle, path, host)

-----------------------------------------------------------------------------
(* FileSystemService: traversal and search *)

\* String.prototype.toLowerCase, token by token.
LowerTok(t) == CASE t = "Bar" -> "bar" [] t = "README" -> "readme" [] OTHER -> t

Lower(s) == [i \in 1..Len(s) |-> LowerTok(s[i])]

\* String.prototype.includes: needle occurs in hay as a run of tokens.
Includes(hay, needle) ==
    \E i \in 0..(Len(hay) - Len(needle)) : SubSeq(hay, i + 1, i + Len(needle)) = needle

\* String.prototype.startsWith
StartsWith(s, prefix) ==
    Len(prefix) <= Len(s) /\ SubSeq(s, 1, Len(prefix)) = prefix

\* path ? `${path}/${name}` : name
ChildPath(path, name) == IF Truthy(path) THEN path \o <<"/">> \o name ELSE name

\* The directories readDirectoryRecursive does not descend into.
HeavyDirectories ==
    {<<"node_modules">>, <<".", "git">>, <<"dist">>, <<"build">>, <<".", "next">>}

\* readDirectory: one FileNode per child (the sort order is not modelled: the
\* listing is a set).  A directory that cannot be read lists as empty.
readDirectory(dir, path, host) ==
    IF dir.kind # "directory" \/ host = "denied" THEN {}
    ELSE {[name |-> n, kind |-> dir.children[n].kind, path |-> ChildPath(path, n)] :
            n \in DOMAIN dir.children}

\* readDirectoryRecursive: the listing of dir with, under each entry, the
\* listing of the directory it names; the result is the set of all nodes.
RECURSIVE readDirectoryRecursive(_, _, _)
readDirectoryRecursive(dir, path, host) ==
    LET entries == readDirectory(dir, path, host)
    IN  entries \cup
        UNION {readDirectoryRecursive(dir.children[e.name], e.path, host) :
                 e \in {x \in entries : x.kind = "directory"
                                        /\ x.name \notin HeavyDirectories}}

\* searchFiles: traverse(dir, path)
RECURSIVE SearchTraverse(_, _, _)
SearchTraverse(dir, path, lowerQuery) ==
    LET items == {n \in DOMAIN dir.children :
                    ~(n = <<"node_modules">> \/ StartsWith(n, <<".">>))}
    IN  {ChildPath(path, n) : n \in {m \in items : dir.children[m].kind = "file"
                                          /\ Includes(Lower(m), lowerQuery)}}
        \cup UNION {SearchTraverse(dir.children[n], ChildPath(path, n), lowerQuery) :
                      n \in {m \in items : dir.children[m].kind = "directory"}}

searchFiles(fs, query, host) ==
    IF query = Undefined THEN Outcome(ActiveRoot(fs), TRUE, Undefined, <<>>)
    ELSE IF ActiveRoot(fs).kind = "null" \/ host = "denied"
    THEN Outcome(ActiveRoot(fs), FALSE, {}, <<>>)
    ELSE Outcome(ActiveRoot(fs), FALSE,
                 SearchTraverse(ActiveRoot(fs), <<>>, Lower(query)), <<>>)

\* readMultipleFiles: per path the content, or the error text (here Undefined).
readMultipleFiles(fs, paths, host) ==
    IF paths = Undefined THEN Outcome(ActiveRoot(fs), TRUE, Undefined, <<>>)
    ELSE Outcome(ActiveRoot(fs), FALSE,
                 [i \in 1..Len(paths) |->
                    LET r == readFile(fs, paths[i], host)
                    IN  [error |-> r.threw, content |-> r.value]],
                 <<>>)

-----------------------------------------------------------------------------
(* KnowledgeService *)

\* const extension = path.split('.').pop() || ''
Extension(path) == Last(Split(path, "."))

ScriptExtensions == {<<"ts">>, <<"tsx">>, <<"js">>, <<"jsx">>}

\* The identifiers that follow one of the keywords in the text, in order
\* (content.matchAll of keyword, white space, identifier).
RECURSIVE MatchAll(_, _)
MatchAll(content, keywords) ==
    IF Len(content) < 2 THEN <<>>
    ELSE IF Head(content) \in keywords
    THEN <<content[2]>> \o MatchAll(Tail(Tail(content)), keywords)
    ELSE MatchAll(Tail(content), keywords)

\* /(?:const|let|var)\s+([a-zA-Z0-9_]+)\s*=/g
RECURSIVE MatchVars(_)
MatchVars(content) ==
    IF Len(content) < 3 THEN <<>>
    ELSE IF Head(content) \in {"const", "let", "var"} /\ content[3] = "="
    THEN <<content[2]>> \o MatchVars(Tail(Tail(Tail(content))))
    ELSE MatchVars(Tail(content))

Labelled(kind, names) == [i \in 1..Len(names) |-> [kind |-> kind, name |-> names[i]]]

parseSymbols(content, extension) ==
    IF extension \in ScriptExtensions
    THEN LET symbols == Labelled("Function", MatchAll(content, {"function"}))
                        \o Labelled("Var", MatchVars(content))
                        \o Labelled("Class", MatchAll(content, {"class"}))
         IN  [symbols |-> symbols,
              summary |-> [text |-> "Contains definitions", count |-> Len(symbols),
                           names |-> SubSeq(symbols, 1, IF Len(symbols) < 3
                                                        THEN Len(symbols) ELSE 3)]]
    ELSE IF extension = <<"py">>
    THEN LET symbols == Labelled("Function", MatchAll(content, {"def"}))
                        \o Labelled("Class", MatchAll(content, {"class"}))
         IN  [symbols |-> symbols,
              summary |-> [text |-> "Python module", count |-> Len(symbols),
                           names |-> <<>>]]
    ELSE IF extension = <<"html">>
    THEN LET title == MatchAll(content, {"<title>"})
         IN  [symbols |-> Labelled("Page Title", SubSeq(title, 1, IF title = <<>> THEN 0 ELSE 1)),
              summary |-> [text |-> "HTML", count |-> 0,
                           names |-> SubSeq(title, 1, IF title = <<>> THEN 0 ELSE 1)]]
    ELSE [symbols |-> <<>>,
          summary |-> [text |-> "File contains logic.", count |-> 0, names |-> <<>>]]

\* content.slice(0, 300): the characters of the snippet.
SnippetChars == 300

\* The words that lie within the first `room` characters, one separator
\* between two words (replace(/\s+/g, ' ')).
RECURSIVE SliceWords(_, _)
SliceWords(content, room) ==
    IF content = <<>> \/ Len(Head(content)) > room THEN <<>>
    ELSE <<Head(content)>> \o SliceWords(Tail(content), room - Len(Head(content)) - 1)

contentSnippet(content) == SliceWords(content, SnippetChars)

IndexEntry(path, content) ==
    LET parsed == parseSymbols(content, Extension(path))
    IN  [path |-> path, symbols |-> parsed.symbols, summary |-> parsed.summary,
         contentSnippet |-> contentSnippet(content)]

IndexPaths(idx) == {idx[i].path : i \in 1..Len(idx)}

\* A map in which a key set again moves to the last place.
MapSetLast(idx, entry) ==
    Append(SelectSeq(idx, LAMBDA e : e.path # entry.path), entry)

\* Map.prototype.set: an existing key keeps its place, a new key goes last.
MapSet(idx, entry) ==
    IF entry.path \in IndexPaths(idx)
    THEN [i \in 1..Len(idx) |-> IF idx[i].path = entry.path THEN entry ELSE idx[i]]
    ELSE Append(idx, entry)

\* Map.prototype.delete
MapDelete(idx, path) == SelectSeq(idx, LAMBDA e : e.path # path)

\* indexFile (lastModified, a clock reading, is left out)
indexFile(idx, path, content) ==
    IF Includes(path, <<"node_modules">>) \/ StartsWith(path, <<".">>) THEN idx
    ELSE MapSet(idx, IndexEntry(path, content))

removeFile(idx, path) == MapDelete(idx, path)

\* The listener the constructor subscribes.
onFileChanged(idx, event) ==
    IF event.type = "delete" THEN removeFile(idx, event.path)
    ELSE IF event.type = "write" /\ Truthy(event.content)
    THEN indexFile(idx, event.path, event.content)
    ELSE idx

\* notify: the listeners of FileSystemService.  The KnowledgeService
\* constructor subscribes the only one and drops its disposer.
RECURSIVE notifyAll(_, _)
notifyAll(idx, events) ==
    IF events = <<>> THEN idx
    ELSE notifyAll(onFileChanged(idx, Head(events)), Tail(events))

\* The text of a symbol label, `${kind}: ${name}`, lower-cased.
LabelText(sym) ==
    <<CASE sym.kind = "Function" -> "function" [] sym.kind = "Var" -> "var"
        [] sym.kind = "Class" -> "class" [] OTHER -> "page title">>
    \o <<":", " ">> \o Lower(<<sym.name>>)

\* The words of a text joined by single blanks.
RECURSIVE Spaced(_)
Spaced(words) ==
    IF Len(words) <= 1 THEN words
    ELSE <<Head(words), " ">> \o Spaced(Tail(words))

PathScore == 10
SymbolScore == 5
SnippetScore == 1
MaxResults == 10

\* The symbols of the entry matched by one of the terms, in order.
MatchedSymbols(entry, terms) ==
    SelectSeq(entry.symbols,
              LAMBDA sym : \E i \in 1..Len(terms) : Includes(LabelText(sym), terms[i]))

\* A score that counts the terms found in a symbol, not the symbols found.
ScoredByTerm(entry, query) ==
    LET terms == Split(Lower(query), " ")
        pathHit == Includes(Lower(entry.path), Lower(query))
        found == {i \in 1..Len(terms) :
                     \E k \in 1..Len(entry.symbols) :
                         Includes(LabelText(entry.symbols[k]), terms[i])}
        snippetHit == \E i \in 1..Len(terms) :
                          Includes(Lower(Spaced(entry.contentSnippet)), terms[i])
    IN  [path |-> entry.path,
         score |-> (IF pathHit THEN PathScore ELSE 0) + SymbolScore * Cardinality(found)
                   + (IF snippetHit THEN SnippetScore ELSE 0),
         reason |-> [reasons |-> <<>>, summary |-> entry.summary]]

\* search: the score and the reasons of one entry.
Scored(entry, query) ==
    LET terms == Split(Lower(query), " ")
        pathHit == Includes(Lower(entry.path), Lower(query))
        syms == MatchedSymbols(entry, terms)
        snippetHit == \E i \in 1..Len(terms) :
                          Includes(Lower(Spaced(entry.contentSnippet)), terms[i])
        reasons == (IF pathHit THEN <<[kind |-> "Filename match", name |-> ""]>> ELSE <<>>)
                   \o syms
    IN  [path |-> entry.path,
         score |-> (IF pathHit THEN PathScore ELSE 0) + SymbolScore * Len(syms)
                   + (IF snippetHit THEN SnippetScore ELSE 0),
         reason |-> [reasons |-> SubSeq(reasons, 1, IF Len(reasons) < 2 THEN Len(reasons) ELSE 2),
                     summary |-> entry.summary]]

\* Array.prototype.sort((a, b) => b.score - a.score): stable, by insertion.
RECURSIVE InsertByScore(_, _)
InsertByScore(sorted, r) ==
    IF sorted = <<>> THEN <<r>>
    ELSE IF Head(sorted).score >= r.score THEN <<Head(sorted)>> \o InsertByScore(Tail(sorted), r)
    ELSE <<r>> \o sorted

\* A sort that leaves the results in the order of the index.
SortNothing(results) == results

RECURSIVE SortByScore(_)
SortByScore(results) ==
    IF results = <<>> THEN <<>>
    ELSE InsertByScore(SortByScore(Front(results)), Last(results))

search(idx, query) ==
    LET results == SelectSeq([i \in 1..Len(idx) |-> Scored(idx[i], query)],
                             LAMBDA r : r.score > 0)
        sorted == SortByScore(results)
    IN  [i \in 1..(IF Len(sorted) < MaxResults THEN Len(sorted) ELSE MaxResults) |->
            [path |-> sorted[i].path, reason |-> sorted[i].reason]]

-----------------------------------------------------------------------------
(* SyntaxService *)

\* /\.(js|jsx|ts|tsx)$/.test(filename); undefined tests as the text "undefined".
IsScriptFile(filename) ==
    /\ filename # Undefined
    /\ Len(filename) >= 2
    /\ filename[Len(filename) - 1] = "."
    /\ filename[Len(filename)] \in {"js", "jsx", "ts", "tsx"}

\* A validator that accepts everything.
validateNothing(code, filename, babel) == Null

\* validate: babel is what window.Babel does with the code: "absent" (not
\* loaded), "accepts", or "rejects" (transform throws; its message is returned).
validate(code, filename, babel) ==
    IF ~IsScriptFile(filename) THEN Null
    ELSE IF babel = "absent" THEN Null
    ELSE IF babel = "accepts" THEN Null
    ELSE [kind |-> "message", text |-> "SyntaxError"]

-----------------------------------------------------------------------------
(* FileSystemService.runTerminalCommand.  shell is the external executor:
   puter (loaded), signedIn, signIn ("ok" or "throws"), exec ("ok": exit code
   0, "fail": another exit code, "throws") and stdout. *)

RECURSIVE TrimLeft(_)
TrimLeft(s) == IF s # <<>> /\ Head(s) \in WhiteSpace THEN TrimLeft(Tail(s)) ELSE s

RECURSIVE TrimRight(_)
TrimRight(s) == IF s # <<>> /\ Last(s) \in WhiteSpace THEN TrimRight(Front(s)) ELSE s

Trim(s) == TrimRight(TrimLeft(s))

HomeDirectory == <<"~">>

\* The outcome: the tracked directory after the call, whether the call threw,
\* the text returned, and the command handed to the executor with its cwd option.
Shell(dir, threw, text, ran) == [cwd |-> dir, threw |-> threw, value |-> text, ran |-> ran]

\* A shell that follows every cd, whatever its probe says.
runTerminalCommandBlind(dir, command, shell) ==
    IF ~shell.puter \/ command = Undefined THEN Shell(dir, FALSE, "", <<>>)
    ELSE LET parts == Split(Trim(command), " ")
         IN  IF parts[1] = <<"cd">>
             THEN Shell(IF Len(parts) >= 2 THEN parts[2] ELSE HomeDirectory, FALSE,
                        "Changed directory", <<>>)
             ELSE Shell(dir, FALSE, "stdout",
                        <<[probe |-> FALSE, from |-> command, to |-> <<>>, cwd |-> dir]>>)

runTerminalCommand(dir, command, shell) ==
    IF ~shell.puter THEN Shell(dir, FALSE, "Error: Puter.js system not loaded", <<>>)
    ELSE IF ~shell.signedIn /\ shell.signIn = "throws"
    THEN Shell(dir, FALSE, "Error: Authentication failed", <<>>)
    ELSE IF command = Undefined THEN Shell(dir, TRUE, "", <<>>)
    ELSE LET parts == Split(Trim(command), " ")
         IN  IF parts[1] = <<"cd">>
             THEN LET target == IF Len(parts) >= 2 /\ parts[2] # <<>> THEN parts[2]
                                ELSE HomeDirectory
                      verifyCmd == [probe |-> TRUE, from |-> dir, to |-> target, cwd |-> Undefined]
                  IN  IF shell.exec = "throws"
                      THEN Shell(dir, FALSE, "Error executing cd", <<verifyCmd>>)
                      ELSE IF shell.exec = "ok"
                      THEN Shell(Trim(shell.stdout), FALSE, "Changed directory", <<verifyCmd>>)
                      ELSE Shell(dir, FALSE, "cd: No such file or directory", <<verifyCmd>>)
             ELSE LET run == [probe |-> FALSE, from |-> command, to |-> <<>>, cwd |-> dir]
                  IN  IF shell.exec = "throws"
                      THEN Shell(dir, FALSE, "System Execution Error", <<run>>)
                      ELSE IF shell.exec = "fail"
                      THEN Shell(dir, FALSE, "stderr", <<run>>)
                      ELSE Shell(dir, FALSE, "stdout", <<run>>)

-----------------------------------------------------------------------------
(* AIService.executeTool.  st is the record of the services' fields; args is
   the argument mapping, a missing key reading as Undefined; env is what the
   external collaborators do during the call: host, babel, shell, net. *)

Services(p, h, m, idx, dir) ==
    [provider |-> p, rootHandle |-> h, memoryRoot |-> m, index |-> idx, cwd |-> dir]

\* The services after a file operation: the active backend's tree replaced
\* and every listener notified of the operation's events.
AfterFs(st, out) ==
    [st EXCEPT !.memoryRoot = IF st.provider = "memory" THEN out.root ELSE @,
               !.rootHandle = IF st.provider = "memory" THEN @ ELSE out.root,
               !.index = notifyAll(@, out.events)]

Value(v) == [kind |-> "value", value |-> v]

Error(message) == [kind |-> "error", message |-> message]

Thrown == [kind |-> "throw"]

ToolReturn(st, result, events) == [st |-> st, result |-> result, events |-> events]

\* The switch of executeTool; an exception of a branch leaves it as Thrown.
ToolSwitch(st, name, args, env) ==
    CASE name = "listFiles" ->
           ToolReturn(st, Value(readDirectoryRecursive(ActiveRoot(st),
                                    IF args.path = Undefined THEN <<>> ELSE args.path,
                                    env.host)), <<>>)
      [] name = "readFile" ->
           LET out == readFile(st, args.path, env.host)
           IN  ToolReturn(st, IF out.threw THEN Thrown ELSE Value(out.value), <<>>)
      [] name = "readMultipleFiles" ->
           LET out == readMultipleFiles(st, args.paths, env.host)
           IN  ToolReturn(st, IF out.threw THEN Thrown ELSE Value(out.value), <<>>)
      [] name = "writeFile" ->
           LET syntaxError == validate(args.content, args.path, env.babel)
           IN  IF syntaxError.kind # "null" THEN ToolReturn(st, Error("Syntax Error"), <<>>)
               ELSE LET out == writeFile(st, args.path, args.content, env.host)
                    IN  ToolReturn(AfterFs(st, out),
                                   IF out.threw THEN Thrown ELSE Value("success"),
                                   out.events)
      [] name = "createDirectory" ->
           LET out == createDirectory(st, args.path, env.host)
           IN  ToolReturn(AfterFs(st, out),
                          IF out.threw THEN Thrown ELSE Value("success"), out.events)
      [] name = "deleteFile" ->
           LET out == deleteEntry(st, args.path, env.host)
           IN  ToolReturn(AfterFs(st, out),
                          IF out.threw THEN Thrown ELSE Value("success"), out.events)
      [] name = "searchFiles" ->
           LET out == searchFiles(st, args.query, env.host)
           IN  ToolReturn(st, IF out.threw THEN Thrown ELSE Value(out.value), <<>>)
      [] name = "searchCodebase" ->
           ToolReturn(st, IF args.query = Undefined THEN Thrown
                          ELSE Value(search(st.index, args.query)), <<>>)
      [] name = "runTerminal" ->
           LET out == runTerminalCommand(st.cwd, args.command, env.shell)
           IN  ToolReturn([st EXCEPT !.cwd = out.cwd],
                          IF out.threw THEN Thrown ELSE Value(out.value), <<>>)
      [] name = "deployToPreview" -> ToolReturn(st, Value("previewUrl"), <<>>)
      [] name = "fetchUrl" ->
           ToolReturn(st, IF env.net = "fails" THEN Thrown ELSE Value("content"), <<>>)
      [] OTHER -> ToolReturn(st, Error("Unknown tool"), <<>>)

\* An executeTool without its catch.
executeToolUncaught(st, name, args, env) == ToolSwitch(st, name, args, env)

\* try { switch ... } catch (e) { return { error: e.message } }
executeTool(st, name, args, env) ==
    LET ret == ToolSwitch(st, name, args, env)
    IN  IF ret.result.kind = "throw" THEN [ret EXCEPT !.result = Error("thrown")] ELSE ret

-----------------------------------------------------------------------------
(* JSON.parse on a text of characters.  The characters of the model are the
   brackets, the double quote, the backslash, the comma, the colon, the
   blank, the line feed (LF), the digits 1 and 2 and the letters a and n.
   A parsed value is a number, a string, an array or an object. *)

JsonDigits == {"1", "2"}

JsonSpace == {" ", LF}

Parsed(ok, value, rest) == [ok |-> ok, value |-> value, rest |-> rest]

NoParse == Parsed(FALSE, [t |-> "none"], <<>>)

RECURSIVE SkipSpace(_)
SkipSpace(s) == IF s # <<>> /\ Head(s) \in JsonSpace THEN SkipSpace(Tail(s)) ELSE s

RECURSIVE ParseDigits(_, _)
ParseDigits(s, acc) ==
    IF s # <<>> /\ Head(s) \in JsonDigits THEN ParseDigits(Tail(s), Append(acc, Head(s)))
    ELSE Parsed(TRUE, [t |-> "number", digits |-> acc], s)

\* The characters of a string literal after its opening quote: an escape is
\* a backslash and one of " \ n; a line feed inside the literal is an error.
RECURSIVE ParseChars(_, _)
ParseChars(s, acc) ==
    IF s = <<>> THEN NoParse
    ELSE IF Head(s) = "\"" THEN Parsed(TRUE, [t |-> "string", chars |-> acc], Tail(s))
    ELSE IF Head(s) = LF THEN NoParse
    ELSE IF Head(s) = "\\"
    THEN IF Len(s) < 2 THEN NoParse
         ELSE IF s[2] \in {"\"", "\\"} THEN ParseChars(Tail(Tail(s)), Append(acc, s[2]))
         ELSE IF s[2] = "n" THEN ParseChars(Tail(Tail(s)), Append(acc, LF))
         ELSE NoParse
    ELSE ParseChars(Tail(s), Append(acc, Head(s)))

\* obj[key] = value: a key set again keeps its place and takes the new value.
MemberSet(members, key, value) ==
    IF \E i \in 1..Len(members) : members[i].key = key
    THEN [i \in 1..Len(members) |->
             IF members[i].key = key THEN [key |-> key, value |-> value] ELSE members[i]]
    ELSE Append(members, [key |-> key, value |-> value])

RECURSIVE ParseValue(_)
RECURSIVE ParseElements(_, _)
RECURSIVE ParseMembers(_, _)

\* The elements of an array after "[" or after a comma.
ParseElements(s, acc) ==
    LET item == ParseValue(s)
    IN  IF ~item.ok THEN NoParse
        ELSE LET after == SkipSpace(item.rest)
                 items == Append(acc, item.value)
             IN  IF after = <<>> THEN NoParse
                 ELSE IF Head(after) = "]"
                 THEN Parsed(TRUE, [t |-> "array", items |-> items], Tail(after))
                 ELSE IF Head(after) = "," THEN ParseElements(Tail(after), items)
                 ELSE NoParse

\* The members of an object after "{" or after a comma.
ParseMembers(s, acc) ==
    LET at == SkipSpace(s)
    IN  IF at = <<>> \/ Head(at) # "\"" THEN NoParse
        ELSE LET key == ParseChars(Tail(at), <<>>)
                 colon == IF key.ok THEN SkipSpace(key.rest) ELSE <<>>
             IN  IF colon = <<>> \/ Head(colon) # ":" THEN NoParse
                 ELSE LET item == ParseValue(Tail(colon))
                          after == IF item.ok THEN SkipSpace(item.rest) ELSE <<>>
                      IN  IF after = <<>> THEN NoParse
                          ELSE LET members == MemberSet(acc, key.value.chars, item.value)
                               IN  IF Head(after) = "}"
                                   THEN Parsed(TRUE, [t |-> "object", members |-> members],
                                               Tail(after))
                                   ELSE IF Head(after) = ","
                                   THEN ParseMembers(Tail(after), members)
                                   ELSE NoParse

ParseValue(s) ==
    LET at == SkipSpace(s)
    IN  IF at = <<>> THEN NoParse
        ELSE IF Head(at) = "\"" THEN ParseChars(Tail(at), <<>>)
        ELSE IF Head(at) \in JsonDigits THEN ParseDigits(at, <<>>)
        ELSE IF Head(at) = "["
        THEN LET inner == SkipSpace(Tail(at))
             IN  IF inner # <<>> /\ Head(inner) = "]"
                 THEN Parsed(TRUE, [t |-> "array", items |-> <<>>], Tail(inner))
                 ELSE ParseElements(inner, <<>>)
        ELSE IF Head(at) = "{"
        THEN LET inner == SkipSpace(Tail(at))
             IN  IF inner # <<>> /\ Head(inner) = "}"
                 THEN Parsed(TRUE, [t |-> "object", members |-> <<>>], Tail(inner))
                 ELSE ParseMembers(inner, <<>>)
        ELSE NoParse

\* JSON.parse: one value and nothing but white space after it; ok = FALSE is
\* the SyntaxError.
JsonParse(s) ==
    LET parsed == ParseValue(s)
    IN  IF parsed.ok /\ SkipSpace(parsed.rest) = <<>> THEN parsed ELSE NoParse

-----------------------------------------------------------------------------
(* The inputs of the model *)

EmptyArgs ==
    [path |-> Undefined, content |-> Undefined, query |-> Undefined,
     paths |-> Undefined, command |-> Undefined]

\* "a.ts", "d/a.ts", "d//a.ts", "d", "a.ts/x" (through the file a.ts),
\* "nodir/x" and ""
PathA == <<"a", ".", "ts">>
PathDA == <<"d", "/", "a", ".", "ts">>
PathDslashA == <<"d", "/", "/", "a", ".", "ts">>
PathD == <<"d">>
PathAX == <<"a", ".", "ts", "/", "x">>
PathNoDirX == <<"nodir", "/", "x">>

\* "", "function foo", "class Bar"
TextFoo == <<"function", "foo">>
TextBar == <<"class", "Bar">>

Call(path, content, host, babel) ==
    [path |-> path, content |-> content, host |-> host, babel |-> babel]

\* The calls of writeFile: a file written, overwritten with other and with
\* empty content, a nested file under two spellings of its path, a call
\* without content, a call without path, a denied host, a validator that
\* is absent or rejects the content, and a path through a file name.
WriteCalls ==
    {Call(PathA, c, "ok", "accepts") : c \in {TextFoo, TextBar, <<>>}}
    \cup {Call(PathDA, TextFoo, "ok", "accepts"), Call(PathDslashA, <<>>, "ok", "accepts"),
          Call(PathAX, TextBar, "ok", "accepts"),
          Call(PathD, Undefined, "ok", "accepts"), Call(Undefined, TextFoo, "ok", "accepts")}
    \cup {Call(PathA, TextBar, "ok", "rejects"), Call(PathDA, TextBar, "ok", "rejects"),
          Call(PathD, Undefined, "ok", "rejects"), Call(PathA, TextFoo, "ok", "absent"),
          Call(PathA, TextFoo, "denied", "accepts")}

ReadCalls ==
    {Call(p, Undefined, "ok", "accepts") : p \in {PathA, PathDA, PathD, <<>>, Undefined}}
    \cup {Call(PathA, Undefined, "denied", "accepts")}

DeleteCalls ==
    {Call(p, Undefined, "ok", "accepts") :
        p \in {PathA, PathDA, PathD, PathNoDirX, <<>>, Undefined}}
    \cup {Call(PathA, Undefined, "denied", "accepts")}

DirectoryCalls ==
    {Call(p, Undefined, "ok", "accepts") : p \in {PathD, PathAX, Undefined}}

ListCalls ==
    {Call(p, Undefined, "ok", "accepts") : p \in {<<>>, PathD, Undefined}}

Queries == {<<"foo">>, <<"a">>, Undefined}

PathLists == {<<PathA, PathDA>>, Undefined}

ShellOff == [puter |-> FALSE, signedIn |-> FALSE, signIn |-> "ok", exec |-> "ok", stdout |-> <<>>]

ShellOn(exec, stdout) ==
    [puter |-> TRUE, signedIn |-> TRUE, signIn |-> "ok", exec |-> exec, stdout |-> stdout]

\* The shell calls of the dispatcher: a command, a cd whose probe fails, no command.
ShellCalls ==
    {[command |-> <<"ls">>, shell |-> ShellOff],
     [command |-> <<"ls">>, shell |-> ShellOn("ok", <<>>)],
     [command |-> <<"cd", " ", "home">>, shell |-> ShellOn("fail", <<>>)],
     [command |-> Undefined, shell |-> ShellOn("ok", <<>>)]}

Env(host, babel, shell, net) == [host |-> host, babel |-> babel, shell |-> shell, net |-> net]

\* The directory the host hands over when the user picks one.
HostTrees == {WithChild(EmptyDir, PathA, FileEntry(TextFoo))}

ReadmePath == <<"README", ".", "md">>
ReadmeText == <<"#", "In-Memory", "Workspace">>

-----------------------------------------------------------------------------
(* The state after construction: FileSystemService's field initialisers and
   constructor, an empty index, no request in flight. *)

NoCall ==
    [name |-> "", args |-> EmptyArgs, env |-> Env("ok", "accepts", ShellOff, "ok"),
     result |-> Value("none"), events |-> <<>>]

InitFs ==
    /\ provider = "native"
    /\ rootHandle = Null
    /\ memoryRoot = EmptyDir
    /\ index = <<>>
    /\ cwd = HomeDirectory
    /\ last = NoCall

Current == Services(provider, rootHandle, memoryRoot, index, cwd)

\* setRoot, once per session: the picker hands over a directory, or the
\* service falls back to a fresh memory tree seeded with README.md.
SetRoot ==
    /\ provider = "native" /\ rootHandle.kind = "null"
    /\ \/ /\ rootHandle' \in HostTrees
          /\ UNCHANGED <<provider, memoryRoot, index>>
       \/ LET out == memoryWriteFile(EmptyDir, ReadmePath, ReadmeText)
          IN  /\ provider' = "memory"
              /\ memoryRoot' = out.root
              /\ index' = notifyAll(index, out.events)
              /\ UNCHANGED rootHandle
    /\ last' = NoCall
    /\ UNCHANGED cwd

\* One call of executeTool by the tool dispatcher.
Dispatch(name, args, env) ==
    \E ret \in {executeTool(Current, name, args, env)} :
        /\ provider' = ret.st.provider
        /\ rootHandle' = ret.st.rootHandle
        /\ memoryRoot' = ret.st.memoryRoot
        /\ index' = ret.st.index
        /\ cwd' = ret.st.cwd
        /\ last' = [name |-> name, args |-> args, env |-> env, result |-> ret.result,
                    events |-> ret.events]

-----------------------------------------------------------------------------
(* The tool dispatcher on its own: the tools of the registry, and a name
   outside it, called with arguments and collaborators drawn from the inputs. *)

DefaultShell == ShellOff

ToolCall(name, args, env) == [name |-> name, args |-> args, env |-> env]

FileEnv(c) == Env(c.host, c.babel, DefaultShell, "ok")

PathCalls(name, calls) ==
    {ToolCall(name, [EmptyArgs EXCEPT !.path = c.path, !.content = c.content], FileEnv(c)) :
        c \in calls}

QueryCalls(name, queries) ==
    {ToolCall(name, [EmptyArgs EXCEPT !.query = q], Env("ok", "accepts", DefaultShell, "ok")) :
        q \in queries}

PathListCalls(lists) ==
    {ToolCall("readMultipleFiles", [EmptyArgs EXCEPT !.paths = ps],
              Env("ok", "accepts", DefaultShell, "ok")) : ps \in lists}

TerminalCalls(calls) ==
    {ToolCall("runTerminal", [EmptyArgs EXCEPT !.command = c.command],
              Env("ok", "accepts", c.shell, "ok")) : c \in calls}

BareCalls(names) ==
    {ToolCall(n, EmptyArgs, Env("ok", "accepts", DefaultShell, net)) :
        n \in names, net \in {"ok", "fails"}}

\* The file tools on every input of the model.
FileToolCalls ==
    PathCalls("listFiles", ListCalls) \cup PathCalls("readFile", ReadCalls)
    \cup PathListCalls(PathLists) \cup PathCalls("writeFile", WriteCalls)
    \cup PathCalls("createDirectory", DirectoryCalls)
    \cup PathCalls("deleteFile", DeleteCalls)
    \cup QueryCalls("searchFiles", Queries) \cup QueryCalls("searchCodebase", Queries)

ToolNames ==
    {"listFiles", "readFile", "readMultipleFiles", "writeFile", "createDirectory",
     "deleteFile", "searchFiles", "searchCodebase", "runTerminal", "deployToPreview",
     "fetchUrl"}

\* Every tool of the registry and a name outside it, each called with the
\* empty argument mapping and with one well-formed mapping.
AllToolCalls ==
    BareCalls(ToolNames \cup {"formatDisk"})
    \cup PathCalls("listFiles", {Call(PathD, Undefined, "ok", "accepts")})
    \cup PathCalls("readFile", {Call(PathA, Undefined, "ok", "accepts")})
    \cup PathListCalls({<<PathA, PathD>>})
    \cup PathCalls("writeFile", {Call(PathA, TextFoo, "ok", "accepts"),
                                 Call(PathA, Undefined, "ok", "rejects")})
    \cup PathCalls("createDirectory", {Call(PathD, Undefined, "ok", "accepts"),
                                       Call(PathAX, Undefined, "ok", "accepts")})
    \cup PathCalls("deleteFile", {Call(PathA, Undefined, "ok", "accepts"),
                                  Call(PathA, Undefined, "denied", "accepts")})
    \cup QueryCalls("searchFiles", {<<"a">>}) \cup QueryCalls("searchCodebase", {<<"foo">>})
    \cup TerminalCalls(ShellCalls)

\* The dispatcher called once.
ExecuteTool(calls) == \E c \in calls : Dispatch(c.name, c.args, c.env)

-----------------------------------------------------------------------------
(* App: the agents and the session before any request *)

Agents == {"a1", "a2", "a3"}

\* The provider of the key each agent is configured with.
ProviderOf == [a1 |-> "google", a2 |-> "groq", a3 |-> "anthropic"]

OpenAICompatible ==
    {"groq", "mistral", "openrouter", "sambanova", "cerebras", "deepseek", "pollinations"}

\* The branch of sendMessage the agent's provider takes.
Family(a) ==
    IF ProviderOf[a] = "google" THEN "google"
    ELSE IF ProviderOf[a] \in OpenAICompatible THEN "openai"
    ELSE "other"

\* sendMessage before it is called: pc is the invocation's position, turn its
\* loop counter, calls the provider requests it has issued, pending the tool
\* calls of the current reply not yet executed, result what it returned.
\* suppressed is ac.signal.aborted as the
\* catch read it.  The other fields observe the run: every reply so far
\* requested a tool (allTools), a tool dispatch has begun (begun), the signal
\* fired after that and before the end (midLoop), a provider request was
\* issued with the signal fired (lateRequest).  Of the conversation it keeps
\* the end: the identifiers of the tool calls of the last reply that requested
\* tools (toolCalls) and of the tool results pushed after it (toolResults),
\* and the arguments text of the tool call handled since the last reply
\* (arguments).
IdleAgent ==
    [pc |-> "idle", turn |-> 0, calls |-> 0, pending |-> 0, result |-> "",
     suppressed |-> FALSE,
     allTools |-> TRUE, begun |-> FALSE, midLoop |-> FALSE, lateRequest |-> FALSE,
     toolCalls |-> <<>>, toolResults |-> <<>>, arguments |-> Undefined]

InitApp ==
    /\ signal = FALSE
    /\ abortRef = FALSE
    /\ isProcessing = FALSE
    /\ request = [phase |-> "none", agents |-> {}]
    /\ agent = [a \in Agents |-> IdleAgent]
    /\ histories = [a \in Agents |-> <<>>]

\* No function is applied on its own while the application runs.
NoInput == [fn |-> "none"]

NoOutput == [fn |-> "none"]

InitPure == input = NoInput /\ output = NoOutput

\* No call of handleSendMessage has been made and the ref is null.
InitSends == sends = <<>> /\ currentRef = 0

Init == InitFs /\ InitApp /\ InitPure /\ InitSends

NextFS ==
    \/ SetRoot /\ UNCHANGED <<appVars, sideVars>>
    \/ ExecuteTool(FileToolCalls) /\ UNCHANGED <<appVars, sideVars>>

SpecFS == Init /\ [][NextFS]_vars

NextTools ==
    \/ SetRoot /\ UNCHANGED <<appVars, sideVars>>
    \/ ExecuteTool(AllToolCalls) /\ UNCHANGED <<appVars, sideVars>>

SpecTools == Init /\ [][NextTools]_vars

-----------------------------------------------------------------------------
(* AIService.sendMessage and App.handleSendMessage / handleStop.  One request
   is followed from the click to the end of its finally block. *)

maxTurns == 5

MaxTurnsReached == "Max turns reached"

Terminal == {"done", "aborted", "failed"}

\* The agent sets a request is sent to: one agent, or several.
SoloRequests == {{"a1"}, {"a2"}, {"a3"}}

TeamRequests == {{"a1", "a2"}}

\* The numbers of tool calls a reply requests.
Batches == {1, 2}

\* What a provider answers: tool calls, a text, or a failure (unreachable or
\* non-2xx).
Replies ==
    {[kind |-> "tools", n |-> n, text |-> ""] : n \in Batches}
    \cup {[kind |-> "text", n |-> 0, text |-> "text"], [kind |-> "error", n |-> 0, text |-> ""]}

\* The words of a text of characters: a file content is kept as its words.
Words(chars) == SelectSeq(chars, LAMBDA c : c \notin JsonSpace)

\* args[key] of a parsed argument object: the string of a string member,
\* the strings of an array member, undefined for a missing member.
Member(members, key) ==
    IF \E i \in 1..Len(members) : members[i].key = <<key>>
    THEN LET v == members[CHOOSE i \in 1..Len(members) : members[i].key = <<key>>].value
         IN  IF v.t = "string" THEN v.chars
             ELSE IF v.t = "array" THEN [i \in 1..Len(v.items) |-> v.items[i].chars]
             ELSE Undefined
    ELSE Undefined

\* The argument mapping a parsed value is read as.
ArgsOf(value) ==
    IF value.t # "object" THEN EmptyArgs
    ELSE [path |-> Member(value.members, "path"),
          content |-> IF Member(value.members, "content") = Undefined THEN Undefined
                      ELSE Words(Member(value.members, "content")),
          query |-> Member(value.members, "query"),
          paths |-> Member(value.members, "paths"),
          command |-> Member(value.members, "command")]

\* A parse that takes a text that is not JSON for a request on "a.ts".
parseArgumentsGuessing(arguments) ==
    LET parsed == JsonParse(arguments)
    IN  IF parsed.ok THEN ArgsOf(parsed.value) ELSE [EmptyArgs EXCEPT !.path = PathA]

\* try { args = JSON.parse(toolCall.function.arguments); } catch { args = {}; }
parseArguments(arguments) ==
    LET parsed == JsonParse(arguments)
    IN  IF parsed.ok THEN ArgsOf(parsed.value) ELSE EmptyArgs

\* A tool call of a reply: the name and the arguments as the provider sends
\* them, a JSON text.
ToolRequest(name, arguments) ==
    [name |-> name, arguments |-> arguments, env |-> Env("ok", "accepts", DefaultShell, "ok")]

\* {"path":"a.ts","content":"function foo"}, {}, and two texts cut short:
\* {"path":"a.ts" and {"path":
WriteArguments ==
    <<"{", "\"", "path", "\"", ":", "\"", "a", ".", "ts", "\"", ",",
      "\"", "content", "\"", ":", "\"", "function", " ", "foo", "\"", "}">>

NoArguments == <<"{", "}">>

CutArguments == <<"{", "\"", "path", "\"", ":", "\"", "a", ".", "ts", "\"">>

CutShortArguments == <<"{", "\"", "path", "\"", ":">>

\* The tool calls the model requests in the loop: a write, a name outside
\* the registry, a read with the empty argument mapping.
LoopCalls ==
    {ToolRequest("writeFile", WriteArguments),
     ToolRequest("formatDisk", NoArguments),
     ToolRequest("readFile", NoArguments)}

\* Tool calls whose arguments are not JSON, a read and a listing, beside a
\* write whose arguments are.
CutCalls ==
    {ToolRequest("writeFile", WriteArguments),
     ToolRequest("readFile", CutArguments),
     ToolRequest("listFiles", CutShortArguments)}

\* The per-agent try/catch of handleSendMessage: a returned text is appended
\* as a model message; an exception is appended as an error message unless
\* the request's signal is aborted.
RecordedAlways(history, outcome, aborted) ==
    IF outcome = "returned" THEN Append(history, "model") ELSE Append(history, "error")

Recorded(history, outcome, aborted) ==
    IF outcome = "returned" THEN Append(history, "model")
    ELSE IF aborted THEN history
    ELSE Append(history, "error")

\* sendMessage up to its first await: the first provider request is issued,
\* or the provider has no branch and the fallback text is returned.
StartLoop(a) ==
    IF Family(a) = "other"
    THEN [IdleAgent EXCEPT !.pc = "done", !.result = "Provider not implemented yet."]
    ELSE [IdleAgent EXCEPT !.pc = "request", !.calls = 1]

AllSettled(ag, S) == \A a \in S : ag[a].pc \in Terminal

\* The end of Promise.all and the finally block, once every agent has settled.
Settle(ag, hs) ==
    /\ agent' = ag
    /\ histories' = hs
    /\ IF AllSettled(ag, request.agents)
       THEN /\ isProcessing' = FALSE
            /\ abortRef' = FALSE
            /\ request' = [request EXCEPT !.phase = "finished"]
       ELSE UNCHANGED <<isProcessing, abortRef, request>>

\* The conversation ends with the invocation.
Ended(rec) == [rec EXCEPT !.toolCalls = <<>>, !.toolResults = <<>>]

\* sendMessage returns text in agent a, whose locals are rec.
Return(a, rec, text) ==
    Settle([agent EXCEPT ![a] = [Ended(rec) EXCEPT !.pc = "done", !.result = text]],
           [histories EXCEPT ![a] = Recorded(@, "returned", signal)])

\* sendMessage throws in agent a: way is "abort" (the AbortError of fetch) or
\* "error" (a provider failure).
Throw(a, rec, way) ==
    Settle([agent EXCEPT ![a] = [Ended(rec) EXCEPT !.pc = IF way = "abort" THEN "aborted"
                                                         ELSE "failed",
                                                   !.suppressed = signal]],
           [histories EXCEPT ![a] = Recorded(@, "threw", signal)])

\* agentsWithKeys.map(async ...) under Promise.all: every loop runs to its
\* first await.
Launch(S, hs) ==
    LET ag == [a \in Agents |-> IF a \in S THEN StartLoop(a) ELSE agent[a]]
        rec == [a \in Agents |->
                   IF a \in S /\ ag[a].pc = "done"
                   THEN Recorded(hs[a], "returned", signal) ELSE hs[a]]
    IN  /\ agent' = ag
        /\ histories' = rec
        /\ IF AllSettled(ag, S)
           THEN /\ isProcessing' = FALSE
                /\ abortRef' = FALSE
                /\ request' = [phase |-> "finished", agents |-> S]
           ELSE /\ isProcessing' = TRUE
                /\ abortRef' = TRUE
                /\ request' = [phase |-> "running", agents |-> S]

\* handleSendMessage up to its first await.  The input is disabled while
\* isProcessing.
HandleSendMessage(requests) ==
    /\ request.phase = "none" /\ ~isProcessing
    /\ \E S \in requests :
          LET hs == [a \in Agents |->
                        IF a \in S THEN Append(histories[a], "user") ELSE histories[a]]
          IN  /\ signal' = FALSE
              /\ IF Cardinality(S) > 1
                 THEN /\ request' = [phase |-> "planning", agents |-> S]
                      /\ isProcessing' = TRUE
                      /\ abortRef' = TRUE
                      /\ histories' = hs
                      /\ UNCHANGED agent
                 ELSE Launch(S, hs)
    /\ UNCHANGED <<fsVars, sideVars>>

\* generatePlan settles: the plan is appended to every history, or planning
\* failed; then the signal is tested and the loops are launched.
PlanDone ==
    /\ request.phase = "planning"
    /\ \E ok \in BOOLEAN :
          LET S == request.agents
              hs == [a \in Agents |->
                        IF a \in S /\ ok THEN Append(histories[a], "plan") ELSE histories[a]]
          IN  IF signal
              THEN /\ histories' = hs
                   /\ isProcessing' = FALSE
                   /\ abortRef' = FALSE
                   /\ request' = [request EXCEPT !.phase = "finished"]
                   /\ UNCHANGED agent
              ELSE Launch(S, hs)
    /\ UNCHANGED <<signal, fsVars, sideVars>>

InLoop(a) == agent[a].pc \in {"request", "tools"}

handleStop ==
    /\ abortRef
    /\ signal' = TRUE
    /\ abortRef' = FALSE
    /\ isProcessing' = FALSE
    /\ agent' = [a \in Agents |->
                    IF InLoop(a) /\ agent[a].begun
                    THEN [agent[a] EXCEPT !.midLoop = TRUE] ELSE agent[a]]
    /\ UNCHANGED <<request, histories, fsVars, sideVars>>

\* The loop goes on without settling.
Continue(a, rec) ==
    /\ agent' = [agent EXCEPT ![a] = rec]
    /\ UNCHANGED <<isProcessing, abortRef, request, histories>>

\* The identifiers of the n tool calls of a reply, distinct within the reply.
CallIds(n) == [i \in 1..n |-> i]

\* The locals after a reply with tool calls r: for the OpenAI-compatible
\* branch messages.push(msg), for the Google branch functionResponses = [].
Requested(rec, r) ==
    [rec EXCEPT !.pending = r.n, !.pc = "tools", !.begun = TRUE,
                !.toolCalls = CallIds(r.n), !.toolResults = <<>>]

\* The locals of agent a when a reply arrives: the tool call handled last
\* is out of scope.
AtReply(a) == [agent[a] EXCEPT !.arguments = Undefined]

\* chat.sendMessage settles (the Google branch never reads the signal).
GoogleReply(a, r) ==
    IF r.kind = "error" THEN Throw(a, [AtReply(a) EXCEPT !.allTools = FALSE], "error")
    ELSE IF r.kind = "tools" /\ AtReply(a).turn < maxTurns
    THEN Continue(a, Requested([AtReply(a) EXCEPT !.turn = @ + 1], r))
    ELSE Return(a, [AtReply(a) EXCEPT !.allTools = @ /\ r.kind = "tools"], r.text)

\* A loop that answers a reply without tool calls with one more request.
OpenAIReplyAgain(a, r) ==
    IF signal THEN Throw(a, AtReply(a), "abort")
    ELSE IF r.kind = "error" THEN Throw(a, [AtReply(a) EXCEPT !.allTools = FALSE], "error")
    ELSE IF r.kind = "tools" THEN Continue(a, Requested(AtReply(a), r))
    ELSE Continue(a, [AtReply(a) EXCEPT !.allTools = FALSE, !.calls = @ + 1])

\* fetch settles: with the signal fired it rejects with an AbortError.
OpenAIReply(a, r) ==
    IF signal THEN Throw(a, AtReply(a), "abort")
    ELSE IF r.kind = "error" THEN Throw(a, [AtReply(a) EXCEPT !.allTools = FALSE], "error")
    ELSE IF r.kind = "tools"
    THEN Continue(a, Requested(AtReply(a), r))
    ELSE Return(a, [AtReply(a) EXCEPT !.allTools = FALSE], r.text)

ProviderReply(a) ==
    /\ agent[a].pc = "request"
    /\ \E r \in Replies :
          IF Family(a) = "google" THEN GoogleReply(a, r) ELSE OpenAIReply(a, r)
    /\ UNCHANGED <<signal, fsVars, sideVars>>

\* The Google branch after the last tool of a reply: the function responses
\* are sent.
GoogleNext(a, rec) ==
    Continue(a, [rec EXCEPT !.pc = "request", !.calls = @ + 1,
                            !.lateRequest = @ \/ signal])

\* The OpenAI-compatible branch after the last tool of a reply: turn++, then
\* the next fetch (which rejects at once when the signal has fired) or the
\* end of the loop.
OpenAINext(a, rec) ==
    LET turned == [rec EXCEPT !.turn = @ + 1]
    IN  IF turned.turn < maxTurns
        THEN IF signal THEN Throw(a, turned, "abort")
             ELSE Continue(a, [turned EXCEPT !.pc = "request", !.calls = @ + 1])
        ELSE Return(a, turned, MaxTurnsReached)

\* A push that carries the identifier of the first call of the reply.
PushedFirst(rec) ==
    [rec EXCEPT !.pending = @ - 1, !.toolResults = Append(@, rec.toolCalls[1])]

\* The result of the call the for loop is at is pushed with the identifier
\* of that call (tool_call_id: toolCall.id, id: call.id).
Pushed(rec) ==
    [rec EXCEPT !.pending = @ - 1,
                !.toolResults = Append(@, rec.toolCalls[Len(rec.toolCalls) - rec.pending + 1])]

\* executeTool settles for one tool call of the reply and its result is
\* pushed.  The Google branch takes call.args from the SDK, an object; the
\* OpenAI-compatible branch parses the arguments text.  An exception of
\* executeTool is caught by the Google branch and leaves the
\* OpenAI-compatible branch.
ToolStep(a, calls) ==
    /\ agent[a].pc = "tools"
    /\ \E c \in calls :
          /\ Family(a) = "google" => JsonParse(c.arguments).ok
          /\ Dispatch(c.name, parseArguments(c.arguments), c.env)
          /\ LET rec == [Pushed(agent[a]) EXCEPT !.arguments = c.arguments]
             IN  IF last'.result.kind = "throw" /\ Family(a) # "google"
                 THEN Throw(a, [agent[a] EXCEPT !.pending = @ - 1,
                                                !.arguments = c.arguments], "error")
                 ELSE IF rec.pending > 0 THEN Continue(a, rec)
                 ELSE IF Family(a) = "google" THEN GoogleNext(a, rec)
                 ELSE OpenAINext(a, rec)
    /\ UNCHANGED <<signal, sideVars>>

\* A request to one agent.
Next ==
    \/ SetRoot /\ UNCHANGED <<appVars, sideVars>>
    \/ HandleSendMessage(SoloRequests)
    \/ handleStop
    \/ \E a \in Agents : ProviderReply(a)
    \/ \E a \in Agents : ToolStep(a, LoopCalls)

Spec == Init /\ [][Next]_vars

\* {"path":"a.ts","content":"class Bar"} and {"path":"a.ts"}
WriteBarArguments ==
    <<"{", "\"", "path", "\"", ":", "\"", "a", ".", "ts", "\"", ",",
      "\"", "content", "\"", ":", "\"", "class", " ", "Bar", "\"", "}">>

ReadArguments == <<"{", "\"", "path", "\"", ":", "\"", "a", ".", "ts", "\"", "}">>

\* The tool calls of a reply in the order the reply lists them: a write, and
\* in a reply of two a read of the same path after it.
TurnRequests ==
    <<ToolRequest("writeFile", WriteBarArguments), ToolRequest("readFile", ReadArguments)>>

\* A for loop that takes the tool calls of the reply from the last to the
\* first.
RequestAtBackwards(rec) == rec.pending

\* for (const toolCall of msg.tool_calls) / for (const call of
\* response.functionCalls): the place in the reply of the call the loop is at.
RequestAt(rec) == Len(rec.toolCalls) - rec.pending + 1

\* The call the for loop of agent a is at.
InOrder(a) ==
    IF agent[a].pc = "tools" THEN {TurnRequests[RequestAt(agent[a])]} ELSE {}

\* A request to one agent whose replies request a write, or a write and then
\* a read of the written path.
NextTurn ==
    \/ SetRoot /\ UNCHANGED <<appVars, sideVars>>
    \/ HandleSendMessage(SoloRequests)
    \/ handleStop
    \/ \E a \in Agents : ProviderReply(a)
    \/ \E a \in Agents : ToolStep(a, InOrder(a))

SpecTurn == Init /\ [][NextTurn]_vars

\* A request to one agent of an OpenAI-compatible provider whose replies
\* hold tool calls with arguments that are not JSON.
NextArguments ==
    \/ SetRoot /\ UNCHANGED <<appVars, sideVars>>
    \/ HandleSendMessage({{"a2"}})
    \/ handleStop
    \/ \E a \in Agents : ProviderReply(a)
    \/ \E a \in Agents : ToolStep(a, CutCalls)

SpecArguments == Init /\ [][NextArguments]_vars

\* {"path":"a.ts","content":""}
WriteEmptyArguments ==
    <<"{", "\"", "path", "\"", ":", "\"", "a", ".", "ts", "\"", ",",
      "\"", "content", "\"", ":", "\"", "\"", "}">>

\* The writes two loops contend with: one path, two contents.
RaceCalls ==
    {ToolRequest("writeFile", WriteArguments), ToolRequest("writeFile", WriteEmptyArguments)}

\* A request to several agents whose loops write the same path.
NextRace ==
    \/ SetRoot /\ UNCHANGED <<appVars, sideVars>>
    \/ HandleSendMessage(TeamRequests)
    \/ PlanDone
    \/ handleStop
    \/ \E a \in Agents : ProviderReply(a)
    \/ \E a \in Agents : ToolStep(a, RaceCalls)

SpecRace == Init /\ [][NextRace]_vars

\* A request to several agents.
NextTeam ==
    \/ SetRoot /\ UNCHANGED <<appVars, sideVars>>
    \/ HandleSendMessage(TeamRequests)
    \/ PlanDone
    \/ handleStop
    \/ \E a \in Agents : ProviderReply(a)
    \/ \E a \in Agents : ToolStep(a, LoopCalls)

SpecTeam == Init /\ [][NextTeam]_vars

-----------------------------------------------------------------------------
(* Creative mode: CreativeStudio.handleSend and AIService.sendCreativeMessage.
   CreativeStudio keeps state of the shape of App's: its messages are the
   history of the agent whose key is selected, and it has its own
   isProcessing; it passes no signal. *)

\* sendCreativeMessage up to its first await: the Google branch sends one
\* message on a chat created without tools; every other provider goes to
\* sendMessage.
StartCreative(a) ==
    IF Family(a) = "google" THEN [IdleAgent EXCEPT !.pc = "creative", !.calls = 1]
    ELSE StartLoop(a)

\* handleSend of CreativeStudio up to its first await.
CreativeSend ==
    /\ request.phase = "none" /\ ~isProcessing
    /\ \E a \in Agents :
          LET rec == StartCreative(a)
              hs == [histories EXCEPT ![a] = Append(@, "user")]
          IN  /\ agent' = [agent EXCEPT ![a] = rec]
              /\ histories' = IF rec.pc = "done"
                              THEN [hs EXCEPT ![a] = Recorded(@, "returned", FALSE)]
                              ELSE hs
              /\ isProcessing' = (rec.pc # "done")
              /\ request' = [phase |-> IF rec.pc = "done" THEN "finished" ELSE "running",
                             agents |-> {a}, creative |-> TRUE]
    /\ UNCHANGED <<signal, abortRef, fsVars, sideVars>>

\* chat.sendMessage of the Google branch settles: the text parts of the
\* reply are returned, a failure is thrown.
CreativeReply(a) ==
    /\ agent[a].pc = "creative"
    /\ \E r \in Replies :
          IF r.kind = "error" THEN Throw(a, agent[a], "error")
          ELSE Return(a, agent[a], r.text)
    /\ UNCHANGED <<signal, fsVars, sideVars>>

NextCreative ==
    \/ SetRoot /\ UNCHANGED <<appVars, sideVars>>
    \/ CreativeSend
    \/ \E a \in Agents : CreativeReply(a)
    \/ \E a \in Agents : ProviderReply(a)
    \/ \E a \in Agents : ToolStep(a, LoopCalls)

SpecCreative == Init /\ [][NextCreative]_vars

-----------------------------------------------------------------------------
(* The calls of handleSendMessage of one session.  Each call has its own
   AbortController; abortControllerRef and isProcessing are shared.  A call is
   planning (generatePlan awaited), has its loops in flight (Promise.all
   awaited), or has returned. *)

MaxSends == 3

\* A request to one agent, to several agents, or to agents without a key.
SendKinds == {"solo", "team", "unkeyed"}

AbortCurrent ==
    IF currentRef # 0 THEN [sends EXCEPT ![currentRef].aborted = TRUE] ELSE sends

\* handleSendMessage up to its first await: the controller in the ref is
\* aborted and replaced; without an agent that has a key the call returns
\* there.  The input is disabled while isProcessing.
Send ==
    /\ ~isProcessing
    /\ Len(sends) < MaxSends
    /\ \E kind \in SendKinds :
          /\ sends' = Append(AbortCurrent,
                             [aborted |-> FALSE,
                              phase |-> CASE kind = "solo" -> "loops"
                                          [] kind = "team" -> "planning"
                                          [] OTHER -> "returned"])
          /\ isProcessing' = (kind # "unkeyed")
    /\ currentRef' = Len(sends) + 1
    /\ UNCHANGED <<signal, abortRef, request, agent, histories, fsVars, pureVars>>

\* The finally block of call k.
Finally(k) ==
    /\ sends' = [sends EXCEPT ![k].phase = "returned"]
    /\ isProcessing' = FALSE
    /\ currentRef' = 0

\* generatePlan of call k settles: with its signal aborted the call returns,
\* otherwise its loops are launched.
PlanSettles(k) ==
    /\ sends[k].phase = "planning"
    /\ IF sends[k].aborted THEN Finally(k)
       ELSE /\ sends' = [sends EXCEPT ![k].phase = "loops"]
            /\ UNCHANGED <<isProcessing, currentRef>>
    /\ UNCHANGED <<signal, abortRef, request, agent, histories, fsVars, pureVars>>

\* Promise.all of call k settles: every loop of the call has ended.
LoopsSettle(k) ==
    /\ sends[k].phase = "loops"
    /\ Finally(k)
    /\ UNCHANGED <<signal, abortRef, request, agent, histories, fsVars, pureVars>>

\* handleStop
Stop ==
    /\ currentRef # 0
    /\ sends' = AbortCurrent
    /\ currentRef' = 0
    /\ isProcessing' = FALSE
    /\ UNCHANGED <<signal, abortRef, request, agent, histories, fsVars, pureVars>>

NextSends ==
    \/ Send
    \/ Stop
    \/ \E k \in 1..Len(sends) : PlanSettles(k)
    \/ \E k \in 1..Len(sends) : LoopsSettle(k)

SpecSends == Init /\ [][NextSends]_vars

-----------------------------------------------------------------------------
(* runTerminalCommand called again and again: commands that change the
   directory and commands that do not, against an executor that is absent,
   refuses the sign-in, succeeds, fails or throws. *)

\* "ls", "cd home", " cd home ", "cd", "cdx home"
Commands ==
    {<<"ls">>, <<"cd", " ", "home">>, <<" ", "cd", " ", "home", " ">>, <<"cd">>,
     <<"cdx", " ", "home">>}

\* What the probe prints: "/home\n", "/tmp\n"
Printed == {<<"/", "home", LF>>, <<"/", "tmp", LF>>}

Shells ==
    {ShellOff,
     [puter |-> TRUE, signedIn |-> FALSE, signIn |-> "throws", exec |-> "ok",
      stdout |-> <<"/", "home", LF>>],
     [puter |-> TRUE, signedIn |-> FALSE, signIn |-> "ok", exec |-> "ok",
      stdout |-> <<"/", "home", LF>>]}
    \cup {ShellOn(exec, stdout) : exec \in {"ok", "fail", "throws"}, stdout \in Printed}

\* runTerminalCommand(command) returns.
RunTerminalCommand ==
    /\ \E command \in Commands, shell \in Shells :
          LET out == runTerminalCommand(cwd, command, shell)
          IN  /\ cwd' = out.cwd
              /\ output' = [fn |-> "runTerminalCommand", command |-> command,
                            shell |-> shell, cwd |-> cwd, ran |-> out.ran,
                            value |-> out.value]
    /\ UNCHANGED <<provider, rootHandle, memoryRoot, index, last, input, appVars, sendVars>>

NextShell == RunTerminalCommand

SpecShell == Init /\ [][NextShell]_vars

-----------------------------------------------------------------------------
(* The two backends side by side: a memory service and a native service that
   start from the same workspace and are given the same operations.
   memoryRoot is the tree of the first, rootHandle the directory of the
   second; output keeps the operation and what each service answered. *)

BackendPaths == {PathA, PathDA, PathD, PathNoDirX}

BackendContents == {TextFoo}

Workspaces ==
    {EmptyDir,
     memoryWriteFile(EmptyDir, PathA, TextBar).root,
     memoryWriteFile(EmptyDir, PathDA, TextBar).root}

OnMemory == Services("memory", Null, memoryRoot, index, cwd)

OnNative == Services("native", rootHandle, EmptyDir, index, cwd)

\* What the caller of an operation observes.
Answer(out) == [threw |-> out.threw, value |-> out.value, events |-> out.events]

InitBackends ==
    /\ provider = "memory"
    /\ memoryRoot \in Workspaces
    /\ rootHandle = memoryRoot
    /\ index = <<>>
    /\ cwd = HomeDirectory
    /\ last = NoCall
    /\ InitApp /\ InitPure /\ InitSends

\* One operation applied to both services; the listeners of the memory
\* service feed the index.
OnBoth(fn, path, content, m, n) ==
    /\ memoryRoot' = m.root
    /\ rootHandle' = n.root
    /\ index' = notifyAll(index, m.events)
    /\ output' = [fn |-> fn, path |-> path, content |-> content,
                  memory |-> Answer(m), native |-> Answer(n)]
    /\ UNCHANGED <<provider, cwd, last, input, appVars, sendVars>>

WriteFileOnBoth ==
    \E path \in BackendPaths, content \in BackendContents :
        OnBoth("writeFile", path, content,
               writeFile(OnMemory, path, content, "ok"),
               writeFile(OnNative, path, content, "ok"))

CreateDirectoryOnBoth ==
    \E path \in BackendPaths :
        OnBoth("createDirectory", path, Undefined,
               createDirectory(OnMemory, path, "ok"),
               createDirectory(OnNative, path, "ok"))

DeleteEntryOnBoth ==
    \E path \in BackendPaths :
        OnBoth("deleteEntry", path, Undefined,
               deleteEntry(OnMemory, path, "ok"),
               deleteEntry(OnNative, path, "ok"))

ReadFileOnBoth ==
    \E path \in BackendPaths :
        OnBoth("readFile", path, Undefined,
               readFile(OnMemory, path, "ok"),
               readFile(OnNative, path, "ok"))

NextBackends ==
    \/ WriteFileOnBoth
    \/ CreateDirectoryOnBoth
    \/ DeleteEntryOnBoth
    \/ ReadFileOnBoth

SpecBackends == InitBackends /\ [][NextBackends]_vars

-----------------------------------------------------------------------------
(* Writes to paths the index and the traversals may ignore: a file at the
   root, files under dist, under a nested node_modules and under a nested
   .git, a dot file, and a file whose name contains the text node_modules;
   and searches by file name over the trees they build. *)

IndexingPaths ==
    {PathA,
     <<"dist", "/", "a", ".", "ts">>,
     <<"d", "/", "node_modules", "/", "a", ".", "ts">>,
     <<"d", "/", ".", "git", "/", "a", ".", "ts">>,
     <<".", "env">>,
     <<"x", "node_modules", ".", "ts">>}

IndexingQueries == {<<"a">>, <<"env">>}

IndexingCalls ==
    PathCalls("writeFile", {Call(p, TextFoo, "ok", "accepts") : p \in IndexingPaths})
    \cup QueryCalls("searchFiles", IndexingQueries)

NextIndexing ==
    \/ SetRoot /\ UNCHANGED <<appVars, sideVars>>
    \/ ExecuteTool(IndexingCalls) /\ UNCHANGED <<appVars, sideVars>>

SpecIndexing == Init /\ [][NextIndexing]_vars

-----------------------------------------------------------------------------
(* extractJsonCandidates *)

\* jsonStr.replace(/(?:\r\n|\r|\n)/g, '\\n')
RECURSIVE EscapeLineFeeds(_)
EscapeLineFeeds(s) ==
    IF s = <<>> THEN <<>>
    ELSE IF Head(s) = LF THEN <<"\\", "n">> \o EscapeLineFeeds(Tail(s))
    ELSE <<Head(s)>> \o EscapeLineFeeds(Tail(s))

\* The two parse attempts on a slice: the candidates with its value pushed,
\* or unchanged when both throw.
PushParsed(candidates, jsonStr) ==
    LET strict == JsonParse(jsonStr)
    IN  IF strict.ok THEN Append(candidates, strict.value)
        ELSE LET sanitized == JsonParse(EscapeLineFeeds(jsonStr))
             IN  IF sanitized.ok THEN Append(candidates, sanitized.value) ELSE candidates

\* The locals of the scan; startIndex counts characters from 1, 0 is none.
ScanStart ==
    [candidates |-> <<>>, stack |-> <<>>, startIndex |-> 0,
     inString |-> FALSE, isEscaped |-> FALSE]

\* A scan that does not follow string literals: every bracket counts.
ScanCharBlind(text, i, st) ==
    LET char == text[i]
    IN  IF char \in {"{", "["}
        THEN [st EXCEPT !.startIndex = IF st.stack = <<>> THEN i ELSE @,
                        !.stack = Append(@, IF char = "{" THEN "}" ELSE "]")]
        ELSE IF char \in {"}", "]"} /\ st.stack # <<>> /\ char = st.stack[Len(st.stack)]
        THEN LET popped == SubSeq(st.stack, 1, Len(st.stack) - 1)
             IN  IF popped = <<>> /\ st.startIndex # 0
                 THEN [st EXCEPT !.stack = popped, !.startIndex = 0,
                                 !.candidates =
                                     PushParsed(@, SubSeq(text, st.startIndex, i))]
                 ELSE [st EXCEPT !.stack = popped]
        ELSE st

\* The body of the loop at character i.
ScanChar(text, i, st) ==
    LET char == text[i]
    IN  IF st.inString
        THEN IF char = "\\" /\ ~st.isEscaped THEN [st EXCEPT !.isEscaped = TRUE]
             ELSE IF char = "\"" /\ ~st.isEscaped THEN [st EXCEPT !.inString = FALSE]
             ELSE [st EXCEPT !.isEscaped = FALSE]
        ELSE IF char = "\"" THEN [st EXCEPT !.inString = TRUE]
        ELSE IF char \in {"{", "["}
        THEN [st EXCEPT !.startIndex = IF st.stack = <<>> THEN i ELSE @,
                        !.stack = Append(@, IF char = "{" THEN "}" ELSE "]")]
        ELSE IF char \in {"}", "]"} /\ st.stack # <<>> /\ char = st.stack[Len(st.stack)]
        THEN LET popped == SubSeq(st.stack, 1, Len(st.stack) - 1)
             IN  IF popped = <<>> /\ st.startIndex # 0
                 THEN [st EXCEPT !.stack = popped, !.startIndex = 0,
                                 !.candidates =
                                     PushParsed(@, SubSeq(text, st.startIndex, i))]
                 ELSE [st EXCEPT !.stack = popped]
        ELSE st

RECURSIVE ScanFrom(_, _, _)
ScanFrom(text, i, st) ==
    IF i > Len(text) THEN st ELSE ScanFrom(text, i + 1, ScanChar(text, i, st))

extractJsonCandidates(text) == ScanFrom(text, 1, ScanStart).candidates

\* The texts: up to MaxSegments segments, each a stretch of prose, a stretch
\* of prose with one double quote, a JSON literal, a literal cut short before
\* it closes, a bracketed stretch that is not JSON, or a literal with a raw
\* line feed inside a string, on one line and laid out over several.
MaxSegments == 3

Segment(kind, chars) == [kind |-> kind, chars |-> chars]

ProseSegments ==
    {Segment("prose", c) : c \in {<<"a">>, <<"a", ":", " ", "1", ",", "\\", LF>>}}

LiteralSegments ==
    {Segment("literal", c) : c \in
        {<<"{", "}">>,
         <<"[", "1", "]">>,
         <<"{", "\"", "a", "\"", ":", "[", "1", ",", "2", "]", "}">>,
         <<"[", "\"", "]", "\"", "]">>,
         <<"[", "\"", "\\", "\"", "{", "\"", "]">>,
         <<"[", LF, "[", "]", ",", " ", "{", "\"", "n", "\"", ":", "\"", "\\", "\\", "\"", "}", "]">>}}

TruncatedSegments ==
    {Segment("truncated", c) : c \in
        {<<"{", "\"", "a", "\"", ":">>,
         <<"[", "1", ",">>,
         <<"[", "\"", "a">>}}

BrokenSegments ==
    {Segment("broken", c) : c \in
        {<<"{", "a", "}">>,
         <<"[", "\"", "a", LF, "\"", "]">>}}

QuotedSegments == {Segment("quoted", <<"a", "\"", " ">>)}

LineFeedSegments ==
    {Segment("linefeed", c) : c \in
        {<<"{", "\"", "a", "\"", ":", "\"", "a", LF, "n", "\"", "}">>,
         <<"{", LF, "\"", "a", "\"", ":", "\"", "a", LF, "n", "\"", LF, "}">>}}

Segments ==
    ProseSegments \cup LiteralSegments \cup TruncatedSegments \cup BrokenSegments
    \cup QuotedSegments \cup LineFeedSegments

RECURSIVE TextOf(_)
TextOf(segments) ==
    IF segments = <<>> THEN <<>> ELSE Head(segments).chars \o TextOf(Tail(segments))

JsonInputs ==
    {[fn |-> "extractJsonCandidates", segments |-> s] :
        s \in UNION {[1..n -> Segments] : n \in 0..MaxSegments}}

InitJson == InitFs /\ InitApp /\ InitSends /\ input \in JsonInputs /\ output = NoOutput

\* extractJsonCandidates(text) returns.
ExtractJsonCandidates ==
    /\ input.fn = "extractJsonCandidates"
    /\ output = NoOutput
    /\ output' = [fn |-> "extractJsonCandidates",
                  candidates |-> extractJsonCandidates(TextOf(input.segments))]
    /\ UNCHANGED <<input, fsVars, appVars, sendVars>>

NextJson == ExtractJsonCandidates

SpecJson == InitJson /\ [][NextJson]_vars

\* The segments of one kind, in their order in the text.
RECURSIVE OfKind(_, _)
OfKind(segments, kind) ==
    IF segments = <<>> THEN <<>>
    ELSE IF Head(segments).kind = kind
    THEN <<Head(segments)>> \o OfKind(Tail(segments), kind)
    ELSE OfKind(Tail(segments), kind)

\* The values JSON.parse gives for the literals of a text, in their order.
LiteralValues(segments) ==
    LET literals == OfKind(segments, "literal")
    IN  [i \in 1..Len(literals) |-> JsonParse(literals[i].chars).value]

Extracted == output.fn = "extractJsonCandidates"

\* C11: for a text of prose (free of brackets and double quotes) and
\* well-formed JSON object and array literals, extractJsonCandidates returns
\* the parsed value of each top-level literal, one per literal, nothing for a
\* nested one, in the order of the literals.
C11_LiteralsAreExtracted ==
    /\ \A l \in LiteralSegments : JsonParse(l.chars).ok
    /\ (Extracted /\ \A i \in 1..Len(input.segments) :
                        input.segments[i].kind \in {"prose", "literal"})
       => output.candidates = LiteralValues(input.segments)

\* Two literals with prose between them, one nesting an array and an object
\* and one holding a bracket inside a string, have been extracted.
C11_Witness ==
    /\ Extracted
    /\ Len(input.segments) = 3
    /\ input.segments[1].chars = <<"[", "\"", "]", "\"", "]">>
    /\ input.segments[2].kind = "prose"
    /\ input.segments[3].chars[2] = LF
    /\ Len(output.candidates) = 2
    /\ output.candidates[1] = [t |-> "array", items |-> <<[t |-> "string", chars |-> <<"]">>]>>]
    /\ Len(output.candidates[2].items) = 2

\* C12: for a text holding one well-formed and one truncated (unclosed) JSON
\* fragment, in either order, extractJsonCandidates returns exactly the value
\* of the well-formed fragment.
C12_TruncatedFragmentIsSkipped ==
    (/\ Extracted
     /\ Len(OfKind(input.segments, "literal")) = 1
     /\ Len(OfKind(input.segments, "truncated")) = 1
     /\ OfKind(input.segments, "broken") = <<>>)
    => output.candidates = LiteralValues(input.segments)

\* C28: extractJsonCandidates returns every well-formed top-level JSON
\* object or array of the text whatever the prose around it holds, also
\* prose with an unpaired double quote before the literal.
C28_ProseWithAQuote ==
    (Extracted /\ \A i \in 1..Len(input.segments) :
                     input.segments[i].kind \in {"prose", "quoted", "literal"})
    => output.candidates = LiteralValues(input.segments)

\* The fragment with the line feeds inside its string literals written as
\* the escape \n, and the line feeds of the layout left alone.
RECURSIVE EscapeInStrings(_, _, _)
EscapeInStrings(s, inString, isEscaped) ==
    IF s = <<>> THEN <<>>
    ELSE IF ~inString
    THEN <<Head(s)>> \o EscapeInStrings(Tail(s), Head(s) = "\"", FALSE)
    ELSE IF Head(s) = LF THEN <<"\\", "n">> \o EscapeInStrings(Tail(s), TRUE, FALSE)
    ELSE <<Head(s)>>
         \o EscapeInStrings(Tail(s), ~(Head(s) = "\"" /\ ~isEscaped),
                            Head(s) = "\\" /\ ~isEscaped)

\* The value of a fragment that is JSON but for raw line feeds in strings.
Repaired(chars) == JsonParse(EscapeInStrings(chars, FALSE, FALSE))

\* The values of the literals and of the repaired fragments, in their order.
RECURSIVE RepairedValues(_)
RepairedValues(segments) ==
    IF segments = <<>> THEN <<>>
    ELSE IF Head(segments).kind = "literal"
    THEN <<JsonParse(Head(segments).chars).value>> \o RepairedValues(Tail(segments))
    ELSE IF Head(segments).kind = "linefeed"
    THEN <<Repaired(Head(segments).chars).value>> \o RepairedValues(Tail(segments))
    ELSE RepairedValues(Tail(segments))

\* C29: a bracket-balanced fragment that is JSON but for raw line feeds
\* inside its string values is recovered, its value returned with the line
\* feed as part of the string, also when the fragment is laid out over
\* several lines.
C29_RawLineFeedsAreRepaired ==
    /\ \A l \in LineFeedSegments : ~JsonParse(l.chars).ok /\ Repaired(l.chars).ok
    /\ (Extracted /\ \A i \in 1..Len(input.segments) :
                        input.segments[i].kind \in {"prose", "literal", "linefeed"})
       => output.candidates = RepairedValues(input.segments)

-----------------------------------------------------------------------------
(* pruneMessages.  A message is a role and a text, each a sequence of
   characters; its size is the length of what JSON.stringify writes for it. *)

Message(role, text) == [role |-> role, text |-> text]

\* The characters of a string as JSON.stringify writes them between the
\* quotes: a double quote and a backslash take a backslash before them.
RECURSIVE Escaped(_)
Escaped(chars) ==
    IF chars = <<>> THEN <<>>
    ELSE IF Head(chars) \in {"\"", "\\"} THEN <<"\\", Head(chars)>> \o Escaped(Tail(chars))
    ELSE <<Head(chars)>> \o Escaped(Tail(chars))

Quoted(chars) == <<"\"">> \o Escaped(chars) \o <<"\"">>

\* JSON.stringify(msg)
Stringify(msg) ==
    <<"{">> \o Quoted(<<"r", "o", "l", "e">>) \o <<":">> \o Quoted(msg.role) \o <<",">>
        \o Quoted(<<"t", "e", "x", "t">>) \o <<":">> \o Quoted(msg.text) \o <<"}">>

Size(msg) == Len(Stringify(msg))

\* A test on the length of the message alone, whatever is kept already.
FitsAlone(currentChars, len, maxChars) == ~(len > maxChars)

\* The negation of the test that breaks the walk.
Fits(currentChars, len, maxChars) == ~(currentChars + len > maxChars)

\* A walk that passes over a message that does not fit and goes on.
RECURSIVE KeepMiddleSkipping(_, _, _, _, _)
KeepMiddleSkipping(middleMessages, i, currentChars, maxChars, keptMiddle) ==
    IF i < 1 THEN keptMiddle
    ELSE LET msg == middleMessages[i]
             len == Size(msg)
         IN  IF ~Fits(currentChars, len, maxChars)
             THEN KeepMiddleSkipping(middleMessages, i - 1, currentChars, maxChars, keptMiddle)
             ELSE KeepMiddleSkipping(middleMessages, i - 1, currentChars + len, maxChars,
                                     <<msg>> \o keptMiddle)

\* A walk from the oldest interior message to the newest.
RECURSIVE KeepMiddleForward(_, _, _, _, _)
KeepMiddleForward(middleMessages, i, currentChars, maxChars, keptMiddle) ==
    LET at == Len(middleMessages) + 1 - i
    IN  IF i < 1 THEN keptMiddle
        ELSE LET msg == middleMessages[at]
                 len == Size(msg)
             IN  IF ~Fits(currentChars, len, maxChars) THEN keptMiddle
                 ELSE KeepMiddleForward(middleMessages, i - 1, currentChars + len, maxChars,
                                        <<msg>> \o keptMiddle)

\* The loop from interior message i (counted from 1) down to the first.
RECURSIVE KeepMiddle(_, _, _, _, _)
KeepMiddle(middleMessages, i, currentChars, maxChars, keptMiddle) ==
    IF i < 1 THEN keptMiddle
    ELSE LET msg == middleMessages[i]
             len == Size(msg)
         IN  IF ~Fits(currentChars, len, maxChars) THEN keptMiddle
             ELSE KeepMiddle(middleMessages, i - 1, currentChars + len, maxChars,
                             <<msg>> \o keptMiddle)

\* A pruning that returns the history as it is.
pruneNothing(messages, maxChars) == messages

pruneMessages(messages, maxChars) ==
    IF Len(messages) <= 2 THEN messages
    ELSE LET systemMsg == messages[1]
             lastMsg == messages[Len(messages)]
             currentChars == Size(systemMsg) + Size(lastMsg)
             middleMessages == SubSeq(messages, 2, Len(messages) - 1)
             keptMiddle == KeepMiddle(middleMessages, Len(middleMessages), currentChars,
                                      maxChars, <<>>)
         IN  <<systemMsg>> \o keptMiddle \o <<lastMsg>>

\* The histories: up to MaxMessages messages of sizes 25, 28 and 30, and
\* the budgets up to MaxChars characters.  An input keeps the history drawn
\* beside the messages passed to the application.
MaxMessages == 4

MaxChars == 115

User == <<"u", "s", "e", "r">>

Model == <<"m", "o", "d", "e", "l">>

Messages ==
    {Message(User, <<>>), Message(User, <<"a", "\"">>), Message(Model, <<"a", "a", "a", "a">>)}

PruneInputs ==
    {[fn |-> "pruneMessages", history |-> h, messages |-> h, maxChars |-> b,
      again |-> FALSE] :
        h \in UNION {[1..n -> Messages] : n \in 0..MaxMessages}, b \in 0..MaxChars}

InitPrune == InitFs /\ InitApp /\ InitSends /\ input \in PruneInputs /\ output = NoOutput

\* pruneMessages(history, maxChars) returns.
PruneMessages ==
    /\ input.fn = "pruneMessages"
    /\ output = NoOutput
    /\ output' = [fn |-> "pruneMessages",
                  messages |-> pruneMessages(input.messages, input.maxChars)]
    /\ UNCHANGED <<input, fsVars, appVars, sendVars>>

\* The returned history is pruned again with the same budget.
PruneAgain ==
    /\ input.fn = "pruneMessages"
    /\ output # NoOutput
    /\ ~input.again
    /\ input' = [input EXCEPT !.messages = output.messages, !.again = TRUE]
    /\ output' = [fn |-> "pruneMessages",
                  messages |-> pruneMessages(output.messages, input.maxChars)]
    /\ UNCHANGED <<fsVars, appVars, sendVars>>

NextPrune == PruneMessages \/ PruneAgain

SpecPrune == InitPrune /\ [][NextPrune]_vars

Pruned == output.fn = "pruneMessages"

RECURSIVE TotalSize(_)
TotalSize(messages) ==
    IF messages = <<>> THEN 0 ELSE Size(Head(messages)) + TotalSize(Tail(messages))

\* C13: pruneMessages is idempotent: pruning the pruned history again with
\* the same budget returns it unchanged.
C13_PruneIsIdempotent ==
    (Pruned /\ input.again) => output.messages = input.messages

\* A history of four messages lost one to the budget, and pruning the three
\* that were left returned the same three.
C13_Witness ==
    /\ Pruned
    /\ input.again
    /\ Len(input.history) = 4
    /\ Len(input.messages) = 3
    /\ output.messages = input.messages

\* The history is its first message, its interior messages from k on, and
\* its last message; the interior messages from k on fit the budget on top of
\* the first and the last, and the one before k does not fit on top of them.
WindowFrom(h, r, b, k) ==
    LET n == Len(h)
        ends == Size(h[1]) + Size(h[n])
    IN  /\ r = <<h[1]>> \o SubSeq(h, k, n - 1) \o <<h[n]>>
        /\ k < n => ends + TotalSize(SubSeq(h, k, n - 1)) <= b
        /\ k > 2 => ends + TotalSize(SubSeq(h, k - 1, n - 1)) > b

\* C14: for a history of more than two messages pruneMessages returns the
\* first message, a contiguous run of interior messages that ends at the last
\* interior message and stops before the first one that would exceed the
\* budget, and the last message, in the original order; a history of two or
\* fewer messages is returned unchanged.
C14_ContiguousRecentWindow ==
    Pruned =>
        IF Len(input.messages) <= 2 THEN output.messages = input.messages
        ELSE \E k \in 2..Len(input.messages) :
                WindowFrom(input.messages, output.messages, input.maxChars, k)

\* Of four messages the older interior one would fit on its own but comes
\* after one that does not fit, and neither is kept.
C14_Witness ==
    /\ Pruned
    /\ ~input.again
    /\ Len(input.messages) = 4
    /\ Size(input.messages[2]) < Size(input.messages[3])
    /\ Fits(Size(input.messages[1]) + Size(input.messages[4]), Size(input.messages[2]),
            input.maxChars)
    /\ Len(output.messages) = 2

\* C15: when no interior message of a history of more than two messages fits
\* the budget on top of the first and the last message, pruneMessages returns
\* exactly the first and the last message.
C15_NothingFits ==
    LET h == input.messages
        n == Len(h)
    IN  (/\ Pruned
         /\ n > 2
         /\ \A i \in 2..(n - 1) : Size(h[1]) + Size(h[n]) + Size(h[i]) > input.maxChars)
        => output.messages = <<h[1], h[n]>>

\* The first and the last of four messages fit the budget, each interior
\* message fits it alone, and none fits on top of the two.
C15_Witness ==
    /\ Pruned
    /\ Len(input.messages) = 4
    /\ Size(input.messages[1]) + Size(input.messages[4]) <= input.maxChars
    /\ \A i \in 2..3 : Size(input.messages[1]) + Size(input.messages[4])
                           + Size(input.messages[i]) > input.maxChars
    /\ output.messages = <<input.messages[1], input.messages[4]>>

\* The returned history begins with the first and ends with the last message
\* of the history passed.
KeepsEnds ==
    input.messages # <<>> =>
        /\ output.messages # <<>>
        /\ output.messages[1] = input.messages[1]
        /\ output.messages[Len(output.messages)] = input.messages[Len(input.messages)]

\* C16 as stated: for every history and budget the total serialized size of
\* the returned history does not exceed the budget, and the returned history
\* contains the first and the last message of the input.
C16_WithinBudget ==
    Pruned => (TotalSize(output.messages) <= input.maxChars /\ KeepsEnds)

\* C16: the returned history keeps the first and the last message of the
\* input, and for a history of more than two messages whose first and last
\* message fit the budget together its total serialized size does not exceed
\* the budget.
C16_WithinBudgetWhenEndsFit ==
    LET h == input.messages
    IN  Pruned =>
            /\ KeepsEnds
            /\ (Len(h) > 2 /\ Size(h[1]) + Size(h[Len(h)]) <= input.maxChars)
                   => TotalSize(output.messages) <= input.maxChars

\* A history of four messages larger than the budget came back as three
\* within it.
C16_Witness ==
    /\ Pruned
    /\ ~input.again
    /\ Len(input.messages) = 4
    /\ TotalSize(input.messages) > input.maxChars
    /\ Len(output.messages) = 3
    /\ TotalSize(output.messages) <= input.maxChars

\* C17: in creative mode no tool is dispatched, whatever the provider: a
\* request of sendCreativeMessage never reads, writes or deletes anything in
\* the file system and never runs a shell command.
C17_CreativeDispatchesNoTool ==
    (request.phase # "none" /\ request.creative) => last = NoCall

-----------------------------------------------------------------------------
(* KnowledgeService.search on an index built by indexFile from up to
   MaxFiles files, behind ten files that match by a symbol when the index is
   crowded. *)

MaxFiles == 3

File(path, content) == [path |-> path, content |-> content]

\* "function foo class foo": two symbols of one name
TextFooFoo == <<"function", "foo", "class", "foo">>

SearchFiles ==
    {File(p, c) : p \in {<<"foo", ".", "ts">>, <<"d", "/", "foo", ".", "ts">>, PathA},
                  c \in {<<"foo">>, TextFoo, TextBar}}
    \cup {File(<<"foo", ".", "ts">>, TextFooFoo)}

CrowdNames == <<"f0", "f1", "f2", "f3", "f4", "f5", "f6", "f7", "f8", "f9">>

Crowd == [i \in 1..Len(CrowdNames) |-> File(<<CrowdNames[i], ".", "ts">>, TextFoo)]

SearchQueries == {<<"foo">>, <<"foo", " ">>}

RECURSIVE IndexAll(_, _)
IndexAll(idx, files) ==
    IF files = <<>> THEN idx
    ELSE IndexAll(indexFile(idx, Head(files).path, Head(files).content), Tail(files))

SearchInputs ==
    {[fn |-> "search", query |-> q,
      files |-> (IF crowded THEN Crowd ELSE <<>>) \o files,
      index |-> IndexAll(<<>>, (IF crowded THEN Crowd ELSE <<>>) \o files)] :
        q \in SearchQueries, crowded \in BOOLEAN,
        files \in UNION {[1..n -> SearchFiles] : n \in 0..MaxFiles}}

InitSearch == InitFs /\ InitApp /\ InitSends /\ input \in SearchInputs /\ output = NoOutput

\* search(query) returns.
Search ==
    /\ input.fn = "search"
    /\ output = NoOutput
    /\ output' = [fn |-> "search", results |-> search(input.index, input.query),
                   scores |-> [i \in 1..Len(input.index) |->
                                  Scored(input.index[i], input.query).score]]
    /\ UNCHANGED <<input, fsVars, appVars, sendVars>>

NextSearch == Search

SpecSearch == InitSearch /\ [][NextSearch]_vars

Searched == output.fn = "search"

\* The place of the entry of a path in the results, 0 when it is not listed.
Place(results, path) ==
    IF \E i \in 1..Len(results) : results[i].path = path
    THEN CHOOSE i \in 1..Len(results) : results[i].path = path
    ELSE 0

PathMatches(entry, query) == Includes(Lower(entry.path), Lower(query))

SnippetMatches(entry, query) ==
    \E t \in {Split(Lower(query), " ")[i] : i \in 1..Len(Split(Lower(query), " "))} :
        Includes(Lower(Spaced(entry.contentSnippet)), t)

\* Entry a matches the query by its path, entry b only by its snippet, and
\* as many symbols of a as of b match.
PathAgainstSnippet(a, b, query) ==
    /\ PathMatches(a, query)
    /\ ~PathMatches(b, query)
    /\ SnippetMatches(b, query)
    /\ Len(MatchedSymbols(a, Split(Lower(query), " ")))
           = Len(MatchedSymbols(b, Split(Lower(query), " ")))

\* C18: of two entries with the same symbol matches, one whose path contains
\* the query is listed before one that matches only through its content
\* snippet: whenever the second is among the results, so is the first, at an
\* earlier place.
C18_PathBeforeSnippet ==
    Searched =>
        \A i, j \in 1..Len(input.index) :
            LET a == input.index[i]
                b == input.index[j]
            IN  (PathAgainstSnippet(a, b, input.query)
                 /\ Place(output.results, b.path) > 0)
                => /\ Place(output.results, a.path) > 0
                   /\ Place(output.results, a.path) < Place(output.results, b.path)

\* An entry matching only by its snippet was indexed before one matching by
\* its path, and is listed after it.
C18_Witness ==
    /\ Searched
    /\ \E i, j \in 1..Len(input.index) :
          /\ j < i
          /\ PathAgainstSnippet(input.index[i], input.index[j], input.query)
          /\ Place(output.results, input.index[j].path) > 0
          /\ Place(output.results, input.index[i].path)
                 < Place(output.results, input.index[j].path)

\* The terms of the query, the entry's symbol labels that contain one of
\* them, and the terms that one of the labels contains.
Terms(query) == {Split(Lower(query), " ")[i] : i \in 1..Len(Split(Lower(query), " "))}

SymbolsFound(entry, query) ==
    {k \in 1..Len(entry.symbols) :
        \E t \in Terms(query) : Includes(LabelText(entry.symbols[k]), t)}

TermsFound(entry, query) ==
    {t \in Terms(query) :
        \E k \in 1..Len(entry.symbols) : Includes(LabelText(entry.symbols[k]), t)}

BaseScore(entry, query) ==
    (IF PathMatches(entry, query) THEN PathScore ELSE 0)
    + (IF SnippetMatches(entry, query) THEN SnippetScore ELSE 0)

\* C26 as stated: the score of an entry is 10 if its path contains the raw
\* query (case-insensitive), plus 5 for each query token found inside any of
\* its symbol labels, plus 1 (once) if any token occurs in the snippet.
C26_FivePerToken ==
    Searched =>
        \A i \in 1..Len(input.index) :
            output.scores[i] = BaseScore(input.index[i], input.query)
                + SymbolScore * Cardinality(TermsFound(input.index[i], input.query))

\* C26: the score of an entry is 10 if its path contains the raw query
\* (case-insensitive), plus 5 for each of its symbol labels that contains at
\* least one query token, plus 1 (once) if any token occurs in the snippet.
C26_FivePerSymbol ==
    Searched =>
        \A i \in 1..Len(input.index) :
            output.scores[i] = BaseScore(input.index[i], input.query)
                + SymbolScore * Cardinality(SymbolsFound(input.index[i], input.query))

\* An entry scored 21: its path contains the query, two of its symbols hold
\* the one term of the query, and so does its snippet.
C26_Witness ==
    /\ Searched
    /\ \E i \in 1..Len(input.index) :
          /\ output.scores[i] = PathScore + 2 * SymbolScore + SnippetScore
          /\ Cardinality(SymbolsFound(input.index[i], input.query)) = 2
          /\ Cardinality(TermsFound(input.index[i], input.query)) = 1
          /\ PathMatches(input.index[i], input.query)

\* The place of a path in the index, and the score of its entry.
IndexPlace(path) == CHOOSE i \in 1..Len(input.index) : input.index[i].path = path

ScoreOf(path) == output.scores[IndexPlace(path)]

\* The place in the sequence of indexed files at which a path came first,
\* and at which it came last.
FirstInserted(path) ==
    CHOOSE i \in 1..Len(input.files) :
        /\ input.files[i].path = path
        /\ \A j \in 1..(i - 1) : input.files[j].path # path

LastInserted(path) ==
    CHOOSE i \in 1..Len(input.files) :
        /\ input.files[i].path = path
        /\ \A j \in (i + 1)..Len(input.files) : input.files[j].path # path

Matching == {i \in 1..Len(input.index) : output.scores[i] > 0}

C19_NewSendAbortsPrevious ==
    \A j, k \in 1..Len(sends) :
        (j < k /\ sends[j].phase = "loops" /\ sends[k].phase = "loops")
        => sends[j].aborted

\* C20: before each provider round trip that follows a reply with tool
\* calls, the conversation sent holds for every tool call of that reply
\* exactly one tool-result message with the identifier of the call, after the
\* message of the reply and in the order of the calls.
C20_EveryCallIsAnswered ==
    \A a \in Agents :
        (agent[a].pc = "request" /\ agent[a].calls > 1)
        => agent[a].toolResults = agent[a].toolCalls

\* An OpenAI-compatible loop sent its next request after a reply with two
\* tool calls, one of which ended in an error result.
C20_Witness ==
    /\ agent["a2"].pc = "request"
    /\ agent["a2"].calls > 1
    /\ agent["a2"].toolCalls = <<1, 2>>
    /\ agent["a2"].toolResults = <<1, 2>>
    /\ last.name = "formatDisk"
    /\ last.result.kind = "error"

\* The step in which the first reply without tool calls reaches the loop of
\* agent a.
TextReplyArrives(a) ==
    /\ agent[a].pc = "request"
    /\ agent[a].allTools
    /\ ~agent'[a].allTools
    /\ agent'[a].pc # "failed"

\* C21: when a provider reply requests no tool call the invocation ends in
\* Done with the text of that reply, no tool is dispatched for it, and no
\* provider request follows it.
C21_TextReplyEndsTheLoop ==
    [][\A a \in Agents :
          /\ TextReplyArrives(a)
             => /\ agent'[a].pc = "done"
                /\ agent'[a].result = "text"
                /\ agent'[a].calls = agent[a].calls
                /\ last' = last
          /\ agent[a].pc = "done" => agent'[a] = agent[a]]_vars

\* An OpenAI-compatible loop ended with the text of its second reply.
C21_Witness ==
    /\ agent["a2"].pc = "done"
    /\ agent["a2"].result = "text"
    /\ agent["a2"].calls = 2
    /\ ~agent["a2"].allTools

\* The entry a path names under the root in use.
EntryAt(path) == MemoryWalk(ActiveRoot(Current), PathParts(path))

\* C22: listFiles called with the path of an existing directory returns the
\* entries of that directory, with their paths relative to the workspace
\* root, for the root and for every other directory.
C22_ListsTheDirectory ==
    (/\ last.name = "listFiles"
     /\ last.args.path # Undefined
     /\ last.env.host = "ok"
     /\ EntryAt(last.args.path).kind = "directory")
    => last.result = Value(readDirectoryRecursive(EntryAt(last.args.path),
                                                  Join(PathParts(last.args.path)), "ok"))

\* A part of the path before its last names a file of the tree.
Collides(root, path) ==
    /\ path # Undefined
    /\ \E k \in 1..(Len(PathParts(path)) - 1) :
          MemoryWalk(root, SubSeq(PathParts(path), 1, k)).kind = "file"

\* C23: on the memory backend a write whose path goes through a segment that
\* exists as a file fails with an error, leaves the tree as it was (the file
\* keeps its content, no directory is created) and sends no notification.
C23_CollisionChangesNothing ==
    [][(/\ provider = "memory"
        /\ last'.name = "writeFile"
        /\ Collides(memoryRoot, last'.args.path))
       => /\ last'.result.kind = "error"
          /\ last'.events = <<>>
          /\ UNCHANGED <<provider, rootHandle, memoryRoot, index>>]_vars

\* A write through a.ts was refused on the memory backend, and a.ts still is
\* a file.
C23_Witness ==
    /\ provider = "memory"
    /\ last.name = "writeFile"
    /\ last.args.path = PathAX
    /\ last.result.kind = "error"
    /\ EntryAt(PathA).kind = "file"
    /\ EntryAt(PathA).content = TextFoo

-----------------------------------------------------------------------------
(* Properties of the tool boundary and the file system (SpecFS) *)

Succeeded(call) == call.result = Value("success")

\* The path names an entry: it has at least one part.
NamesEntry(path) == path # Undefined /\ PathParts(path) # <<>>

\* p is path, or lies under it.
Under(p, path) ==
    LET parts == PathParts(path)
        own == PathParts(p)
    IN  Len(parts) <= Len(own) /\ SubSeq(own, 1, Len(parts)) = parts

RejectedWrite(call) ==
    /\ call.name = "writeFile"
    /\ IsScriptFile(call.args.path)
    /\ call.env.babel = "rejects"

\* C3: a writeFile tool call on a .js, .jsx, .ts or .tsx path whose content
\* the validator rejects returns an error, leaves the tree of either backend
\* unchanged, sends no notification and leaves the index unchanged.
C3_RejectedWriteChangesNothing ==
    [][RejectedWrite(last') =>
          /\ last'.result.kind = "error"
          /\ last'.events = <<>>
          /\ UNCHANGED <<provider, rootHandle, memoryRoot, index>>]_vars

C3_Witness ==
    /\ RejectedWrite(last)
    /\ last.result.kind = "error"
    /\ readFile(Current, last.args.path, "ok").value = TextFoo
    /\ index # <<>>

\* C4: after writeFile(p, c) has succeeded on a path that names an entry,
\* readFile(p) returns exactly c, the empty string included, on both backends.
C4_ReadReturnsWritten ==
    (last.name = "writeFile" /\ Succeeded(last) /\ NamesEntry(last.args.path)) =>
        LET out == readFile(Current, last.args.path, "ok")
        IN  ~out.threw /\ out.value = last.args.content

C4_Witness ==
    /\ last.name = "writeFile" /\ Succeeded(last)
    /\ last.args.path = PathDslashA /\ last.args.content = <<>>
    /\ provider = "memory"

\* The paths read back after a delete.
ProbePaths == {PathA, PathDA, PathDslashA, PathD, PathAX, PathNoDirX}

\* C5 as stated: after deleteEntry(p) has returned, readFile fails on p and
\* on every path under p, for every p.
C5_DeletedIsGoneAnyPath ==
    (last.name = "deleteFile" /\ Succeeded(last)) =>
        \A p \in ProbePaths \cup {last.args.path} :
            Under(p, last.args.path) => readFile(Current, p, "ok").threw

\* C5, amended: after deleteEntry(p) has returned for a path p that names an
\* entry, readFile fails on p and on every path under p.
C5_DeletedIsGone ==
    (last.name = "deleteFile" /\ Succeeded(last) /\ NamesEntry(last.args.path)) =>
        \A p \in ProbePaths \cup {last.args.path} :
            Under(p, last.args.path) => readFile(Current, p, "ok").threw

C5_Witness ==
    /\ last.name = "deleteFile" /\ Succeeded(last)
    /\ last.args.path = PathD
    /\ last.events # <<>>
    /\ \E i \in 1..Len(index) : index[i].path = PathDA

\* C6: after deleteEntry(p) has succeeded the index holds no entry for p, nor
\* for any file under p.
C6_DeletedIsUnindexed ==
    (last.name = "deleteFile" /\ Succeeded(last) /\ NamesEntry(last.args.path)) =>
        \A i \in 1..Len(index) : ~Under(index[i].path, last.args.path)

Ignored(path) == Includes(path, <<"node_modules">>) \/ StartsWith(path, <<".">>)

\* C7: when writeFile(p, c) has succeeded on a path the index does not ignore,
\* the index holds for p the entry derived from c, whatever c is.
C7_WrittenIsIndexed ==
    (last.name = "writeFile" /\ Succeeded(last) /\ NamesEntry(last.args.path)
        /\ last.args.content # Undefined /\ ~Ignored(last.args.path)) =>
        \E i \in 1..Len(index) :
            index[i] = IndexEntry(last.args.path, last.args.content)

\* C8: a successful writeFile or deleteEntry sends exactly one notification to
\* the listener; readFile, readDirectoryRecursive and searchFiles send none.
C8_OneNotification ==
    /\ (last.name \in {"writeFile", "deleteFile"} /\ Succeeded(last)
           /\ NamesEntry(last.args.path)) => Len(last.events) = 1
    /\ last.name \in {"readFile", "listFiles", "searchFiles"} => last.events = <<>>

\* The path lies inside an excluded directory, at any depth, or begins with
\* a dot.
Excluded(path) ==
    \/ \E k \in 1..(Len(PathParts(path)) - 1) : PathParts(path)[k] \in HeavyDirectories
    \/ StartsWith(path, <<".">>)

\* C24: a write to a path inside an excluded directory (node_modules, .git,
\* dist, build, .next at any depth) or beginning with a dot creates or
\* changes no entry of the index, and a write to any other path is indexed,
\* also when a name of the path merely contains the text node_modules.
C24_ExcludedPathsAreNotIndexed ==
    [][(last'.name = "writeFile" /\ Succeeded(last') /\ Truthy(last'.args.content))
       => IF Excluded(last'.args.path) THEN index' = index
          ELSE \E i \in 1..Len(index') :
                  index'[i] = IndexEntry(last'.args.path, last'.args.content)]_vars

\* The files readDirectoryRecursive lists from the root whose name contains
\* the query, whatever the case of the letters.
FilesNamed(query) ==
    {e.path : e \in {x \in readDirectoryRecursive(ActiveRoot(Current), <<>>, "ok") :
                        x.kind = "file" /\ Includes(Lower(x.name), Lower(query))}}

\* C25: searchFiles(query) returns exactly the files whose name (the last
\* segment of the path) contains the query, case-insensitively, and it skips
\* the directories readDirectoryRecursive skips, no other.
C25_FindsTheListedFilesByName ==
    (last.name = "searchFiles" /\ last.args.query # Undefined
     /\ ActiveRoot(Current).kind = "directory")
    => last.result = Value(FilesNamed(last.args.query))

\* The command is a cd: its first word is cd.
IsCd(command) == Split(Trim(command), " ")[1] = <<"cd">>

\* The executor is reached: it is loaded and the sign-in, if needed, passes.
Reaches(shell) == shell.puter /\ (shell.signedIn \/ shell.signIn = "ok")

\* C31: the tracked directory changes only when the probe of a cd exits with
\* code 0, and is then the directory the probe printed; a cd whose probe
\* fails or throws and every other command leave it unchanged, and every
\* other command is executed with the tracked directory as its cwd.
C31_OnlyACdProbeMovesTheShell ==
    output.fn = "runTerminalCommand" =>
        /\ cwd = IF IsCd(output.command) /\ Reaches(output.shell)
                    /\ output.shell.exec = "ok"
                 THEN Trim(output.shell.stdout) ELSE output.cwd
        /\ (~IsCd(output.command) /\ Reaches(output.shell))
           => /\ Len(output.ran) = 1
              /\ output.ran[1].from = output.command
              /\ output.ran[1].cwd = output.cwd

\* ls ran in /tmp, the directory the probe of an earlier cd printed.
C31_Witness ==
    /\ output.fn = "runTerminalCommand"
    /\ output.command = <<"ls">>
    /\ Reaches(output.shell)
    /\ output.ran[1].cwd = <<"/", "tmp">>
    /\ cwd = <<"/", "tmp">>

\* The content the loop of agent a wrote last, when the tool call it handled
\* last is a write.
Wrote(a) == parseArguments(agent[a].arguments).content

\* C32: when the loops of two agents have written the same path with
\* contents c1 and c2 and both calls have returned, readFile of the path
\* returns c1 or c2, the content of the later write, and the index entry of
\* the path is derived from the content readFile returns.
C32_LastWriteWinsEverywhere ==
    (/\ \A a \in {"a1", "a2"} : agent[a].arguments \in {WriteArguments, WriteEmptyArguments}
     /\ last.name = "writeFile" /\ Succeeded(last))
    => LET read == readFile(Current, PathA, "ok")
       IN  /\ ~read.threw
           /\ read.value \in {Wrote("a1"), Wrote("a2")}
           /\ read.value = last.args.content
           /\ \E i \in 1..Len(index) : index[i] = IndexEntry(PathA, read.value)

-----------------------------------------------------------------------------
(* Properties of the orchestration loop (Spec, SpecTeam) *)

\* C1: on the Google and on the OpenAI-compatible branch, a sendMessage whose
\* every reply requested a tool call ends after exactly 5 provider round trips
\* and returns "Max turns reached".
C1_FiveRoundTrips ==
    \A a \in Agents :
        (agent[a].pc = "done" /\ agent[a].allTools /\ Family(a) # "other") =>
            agent[a].calls = maxTurns /\ agent[a].result = MaxTurnsReached

\* C2: once the signal has fired after the first tool dispatch of a
\* sendMessage began, the invocation issues no provider request any more and,
\* when it ends, ends aborted.
C2_CancelStopsTheLoop ==
    \A a \in Agents :
        agent[a].midLoop =>
            /\ ~agent[a].lateRequest
            /\ agent[a].pc \in Terminal => agent[a].pc = "aborted"

IsResult(result) == result.kind \in {"value", "error"}

\* C9: executeTool returns a payload or an {error} value for every tool name
\* and argument mapping, the name outside the registry and the empty mapping
\* included, and the loop that called it goes on: the tool call never fails
\* the invocation.
C9_ToolErrorsAreResults ==
    [][/\ \A c \in AllToolCalls
                    \cup {ToolCall(r.name, parseArguments(r.arguments), r.env) :
                             r \in LoopCalls} :
             IsResult(executeTool(Current, c.name, c.args, c.env).result)
       /\ \A a \in Agents :
             (agent[a].pc = "tools" /\ agent'[a].pending < agent[a].pending) =>
                 /\ IsResult(last'.result)
                 /\ agent'[a].pc # "failed"
                 /\ agent'[a].pc = "done" => agent'[a].result = MaxTurnsReached]_vars

C9_Witness ==
    /\ last.name = "readFile" /\ last.args = EmptyArgs
    /\ last.result.kind = "error"
    /\ agent["a2"].pc = "request" /\ agent["a2"].calls = 2

ErrorsIn(history) == Cardinality({i \in DOMAIN history : history[i] = "error"})

\* What C10 says of the failing agent's loop and of its siblings: a failed
\* loop issues no further request, the step that fails it changes no sibling,
\* a sibling that returned has recorded its model message, and the request
\* ends only when every loop has.
FailureIsContained(a) ==
    /\ agent[a].pc = "failed" => agent'[a] = agent[a]
    /\ (agent[a].pc # "failed" /\ agent'[a].pc = "failed") =>
           \A b \in Agents \ {a} : agent'[b] = agent[b] /\ histories'[b] = histories[b]
    /\ agent'[a].pc = "done" => Last(histories'[a]) = "model"
    /\ (request'.phase = "finished" /\ a \in request'.agents) =>
           agent'[a].pc \in Terminal \cup {"idle"}

\* C10 as stated: a failed provider call ends the agent's loop, appends
\* exactly one error message to its history, and leaves every sibling to end
\* and record its own result.
C10_OneErrorMessage ==
    [][\A a \in Agents :
          /\ FailureIsContained(a)
          /\ agent'[a].pc = "failed" => ErrorsIn(histories'[a]) = 1]_vars

\* C10, amended: exactly one error message is appended unless the request's
\* signal was aborted when the failure was caught; then none is.
C10_FailureIsContained ==
    [][\A a \in Agents :
          /\ FailureIsContained(a)
          /\ agent'[a].pc = "failed" =>
                 ErrorsIn(histories'[a]) = IF agent'[a].suppressed THEN 0 ELSE 1]_vars

C10_Witness ==
    /\ agent["a2"].pc = "failed" /\ ~agent["a2"].suppressed
    /\ ErrorsIn(histories["a2"]) = 1
    /\ agent["a1"].pc = "done" /\ agent["a1"].calls > agent["a2"].calls
    /\ request.phase = "finished"

\* The step in which the loop of agent a has handled one tool call.
ToolHandled(a) == agent[a].pc = "tools" /\ agent'[a].pending = agent[a].pending - 1

\* The step in which an OpenAI-compatible loop has handled a tool call whose
\* arguments text is not JSON.
BadArgumentsHandled(a) ==
    /\ Family(a) = "openai"
    /\ ToolHandled(a)
    /\ agent'[a].arguments # Undefined
    /\ ~JsonParse(agent'[a].arguments).ok

\* The call is dispatched with the empty mapping, its result is pushed with
\* its identifier, and the loop goes on: to the next call of the reply, to
\* the next request, or, at the turn limit, to its end.
GoesOnWithEmptyArguments(a) ==
    /\ last'.args = EmptyArgs
    /\ last'.result.kind \in {"value", "error"}
    /\ agent'[a].pc # "failed"
    /\ agent'[a].pc \in {"tools", "request"}
       => agent'[a].toolResults
              = Append(agent[a].toolResults,
                       agent[a].toolCalls[Len(agent[a].toolCalls) - agent[a].pending + 1])
    /\ (~signal /\ agent[a].pending = 1 /\ agent[a].turn + 1 < maxTurns)
       => /\ agent'[a].pc = "request"
          /\ agent'[a].calls = agent[a].calls + 1

C33_NoToolAfterCancel ==
    [][\A a \in Agents : (signal /\ agent[a].pc = "tools") => ~ToolHandled(a)]_vars


\* C34: on the memory backend, after any sequence of writeFile, createDirectory
\* and deleteEntry, every entry of the index names a file that exists and holds
\* the entry derived from that file's current content.
C34_IndexMatchesFiles ==
    provider = "memory" =>
        \A i \in 1..Len(index) :
            LET read == memoryReadFile(memoryRoot, index[i].path)
            IN  /\ ~read.threw
                /\ index[i] = IndexEntry(index[i].path, read.value)


\* C35: on the memory backend a successful writeFile(p, c) changes only the
\* entry at p: every other path that was readable before the call reads the
\* same content after it, also when p names an existing directory.
C35_WriteChangesOnlyItsPath ==
    [][(output'.fn = "writeFile" /\ ~output'.memory.threw) =>
          \A q \in BackendPaths :
              LET before == memoryReadFile(memoryRoot, q)
                  after == memoryReadFile(memoryRoot', q)
              IN  (PathParts(q) # PathParts(output'.path) /\ ~before.threw) =>
                      ~after.threw /\ after.value = before.value]_vars

\* C40: from the same workspace and the same operations, each operation has
\* the same outcome on the memory backend and on the native backend (the same
\* content, or a failure in both) and sends the same notifications.
C40_BackendsAgree ==
    output.fn \in {"writeFile", "createDirectory", "deleteEntry", "readFile"} =>
        output.memory = output.native


\* C36: once Stop has fired the signal of a request, the request appends no
\* further message, model reply or error message, to any agent's history.
C36_NoMessageAfterStop ==
    [][signal => histories' = histories]_vars


\* C37: whenever the loops of the most recently sent request are in flight
\* with their signal not aborted, the stored abort controller is that
\* request's controller and the processing flag is set, so that Stop reaches
\* them, in every interleaving of send, stop and completion.
C37_StopReachesTheLatestRequest ==
    (sends # <<>> /\ sends[Len(sends)].phase = "loops" /\ ~sends[Len(sends)].aborted)
        => currentRef = Len(sends) /\ isProcessing


\* C38: the result of every tool call an invocation executes is delivered to
\* the provider in a later request before the invocation returns: no
\* invocation returns from the step that executed a tool call, on any
\* provider path, the turn ceiling included.
C38_ResultsAreDelivered ==
    [][\A a \in Agents : ToolHandled(a) => agent'[a].pc # "done"]_vars


=============================================================================
